---------------------------- MODULE Spec2Model ----------------------------
(***************************************************************************)
(* EchoMint Arkiv indexer: the market mood analysis engine.                *)
(*                                                                         *)
(*   src/arkiv-indexer/src/index.ts                     EchoMintIndexer    *)
(*   src/arkiv-indexer/src/indexers/marketDataIndexer.ts                   *)
(*                         MarketDataIndexer (l.258), HyperbridgeClient    *)
(*   src/arkiv-indexer/src/analyzers/sentimentAnalyzer.ts                  *)
(*                         SentimentAnalyzer, MoodCalculator               *)
(*                                                                         *)
(* Numbers.  The program computes in floating point; the model computes    *)
(* in exact decimal fixed point:                                           *)
(*   - percentages (priceChangePercent24h, volatility): 1/100 of a percent *)
(*     (5% is 500);                                                        *)
(*   - scores and confidences: 1/10000 (0.6 is 6000);                      *)
(*   - the three sentiment signals: 1/1000 (0.5 is 500).                   *)
(* The two square roots of the program are irrational in general.  They    *)
(* are rounded towards the side that keeps every comparison of the program *)
(* against a threshold on the grid exact: volatility is rounded up to a    *)
(* whole percent, the sentiment confidence 1 - sqrt(variance) is rounded   *)
(* up to 1/1000.                                                           *)
(***************************************************************************)
EXTENDS Integers, Sequences, FiniteSets, TLC

\* ------------------------------------------------------------------------
\* Bounds of the model
\* ------------------------------------------------------------------------

\* analysis cycles started per run (the startup cycle and the timer's)
MaxCycles == 3

\* firings of MarketDataIndexer's own update timer per run
MaxMdiTicks == 1

\* analysis cycles per run that end with an exception
MaxFailedCycles == 1

\* calls of EchoMintIndexer.initialize() per run (the first is start()'s)
MaxInitializeCalls == 2

\* ------------------------------------------------------------------------
\* State
\* ------------------------------------------------------------------------

VARIABLES
  indexerPc,        \* where EchoMintIndexer.start() stands
  tokenRegistry,    \* EchoMintIndexer.tokenRegistry: tokenId -> symbol
  previousMoods,    \* EchoMintIndexer.previousMoods: tokenId -> MoodState
  updateInterval,   \* EchoMintIndexer.updateInterval: "null", "active", "cleared"
  api,              \* HyperbridgeClient.api is defined
  isConnected,      \* HyperbridgeClient.isConnected
  stopPc,           \* where EchoMintIndexer.stop() stands
  exited,           \* process.exit has been called
  priceHistory,     \* MarketDataIndexer.priceHistory: symbol -> PricePoint[]
  updateTimer,      \* MarketDataIndexer.updateTimer: "null", "active", "cleared"
  mdiPending,       \* fetches of fetchAllMarketData in flight, per symbol
  mdiTicks,         \* firings of updateTimer so far
  sentimentHistory, \* SentimentAnalyzer.sentimentHistory: symbol -> SentimentData[]
  cycles,           \* the locals of each call of runAnalysis
  nCycles,          \* calls of runAnalysis so far
  now,              \* Date.now(), in minutes (see VolatilityPeriodMinutes)
  market,           \* CoinGecko: the responses to come, per symbol
  initializeCalls,  \* calls of EchoMintIndexer.initialize() so far
  decisionInput,    \* arguments of a stand-alone call of calculateMood
  decisionOutput,   \* its result
  directCalls,      \* calls made directly on the exported singletons
  queryOutput       \* result of the last calculateVolatility / Momentum

vars ==
  <<indexerPc, tokenRegistry, previousMoods, updateInterval, api, isConnected,
    stopPc, exited, priceHistory, updateTimer, mdiPending, mdiTicks,
    sentimentHistory, cycles, nCycles, now, market, initializeCalls,
    decisionInput, decisionOutput, directCalls, queryOutput>>

decisionVars == <<decisionInput, decisionOutput>>

directVars == <<directCalls, queryOutput>>

\* ------------------------------------------------------------------------
\* Arithmetic helpers
\* ------------------------------------------------------------------------

Min(a, b) == IF a < b THEN a ELSE b

Max(a, b) == IF a > b THEN a ELSE b

Abs(a) == IF a < 0 THEN -a ELSE a

RECURSIVE GCD(_, _)
GCD(a, b) == IF b = 0 THEN a ELSE GCD(b, a % b)

RECURSIVE SumSeq(_)
SumSeq(s) == IF s = <<>> THEN 0 ELSE Head(s) + SumSeq(Tail(s))

\* the largest r in lo..hi with d * r * r <= n   (requires d * lo * lo <= n)
RECURSIVE FloorSqrtDiv(_, _, _, _)
FloorSqrtDiv(n, d, lo, hi) ==
  IF lo >= hi THEN lo
  ELSE LET mid == (lo + hi + 1) \div 2
       IN  IF d * mid * mid <= n
           THEN FloorSqrtDiv(n, d, mid, hi)
           ELSE FloorSqrtDiv(n, d, lo, mid - 1)

\* the least r in lo..hi with d * r * r >= n   (requires d * hi * hi >= n)
RECURSIVE CeilSqrtDiv(_, _, _, _)
CeilSqrtDiv(n, d, lo, hi) ==
  IF lo >= hi THEN hi
  ELSE LET mid == (lo + hi) \div 2
       IN  IF d * mid * mid >= n
           THEN CeilSqrtDiv(n, d, lo, mid)
           ELSE CeilSqrtDiv(n, d, mid + 1, hi)

\* ------------------------------------------------------------------------
\* MoodCalculator
\* ------------------------------------------------------------------------

Bullish == "Bullish"
Bearish == "Bearish"
Neutral == "Neutral"
Volatile == "Volatile"
PositiveSentiment == "PositiveSentiment"
NegativeSentiment == "NegativeSentiment"

MoodState ==
  {Bullish, Bearish, Neutral, Volatile, PositiveSentiment, NegativeSentiment}

\* Map.get of a key that is not in previousMoods
NoMood == "undefined"

MoodAnalysis(symbol, mood, confidence) ==
  [symbol |-> symbol, mood |-> mood, confidence |-> confidence]

\* rules 4 and 5 evaluated before the strong-sentiment rules 2 and 3
calculateMood_PriceFirst(marketData, sentimentData, volatility) ==
  LET priceChangePercent == marketData.priceChangePercent24h
      sentimentScore == sentimentData.score
      sym == marketData.symbol
  IN  IF volatility > 5000
      THEN MoodAnalysis(sym, Volatile, Min(10000, volatility))
      ELSE IF priceChangePercent > 500 /\ sentimentScore > 0
      THEN MoodAnalysis(sym, Bullish, Min(10000, priceChangePercent * 5))
      ELSE IF priceChangePercent < -500 /\ sentimentScore < 0
      THEN MoodAnalysis(sym, Bearish, Min(10000, Abs(priceChangePercent) * 5))
      ELSE IF sentimentScore > 6000 /\ sentimentData.confidence > 7000
      THEN MoodAnalysis(sym, PositiveSentiment, sentimentData.confidence)
      ELSE IF sentimentScore < -6000 /\ sentimentData.confidence > 7000
      THEN MoodAnalysis(sym, NegativeSentiment, sentimentData.confidence)
      ELSE IF priceChangePercent > 500 /\ sentimentScore <= 0
      THEN MoodAnalysis(sym, IF volatility > 3000 THEN Volatile ELSE Neutral, 6000)
      ELSE IF priceChangePercent < -500 /\ sentimentScore >= 0
      THEN MoodAnalysis(sym, IF volatility > 3000 THEN Volatile ELSE Neutral, 6000)
      ELSE MoodAnalysis(sym, Neutral, 7000)

\* the high-volatility override evaluated after the sentiment and price rules
calculateMood_VolatilityLast(marketData, sentimentData, volatility) ==
  LET priceChangePercent == marketData.priceChangePercent24h
      sentimentScore == sentimentData.score
      sym == marketData.symbol
  IN  IF sentimentScore > 6000 /\ sentimentData.confidence > 7000
      THEN MoodAnalysis(sym, PositiveSentiment, sentimentData.confidence)
      ELSE IF sentimentScore < -6000 /\ sentimentData.confidence > 7000
      THEN MoodAnalysis(sym, NegativeSentiment, sentimentData.confidence)
      ELSE IF priceChangePercent > 500 /\ sentimentScore > 0
      THEN MoodAnalysis(sym, Bullish, Min(10000, priceChangePercent * 5))
      ELSE IF priceChangePercent < -500 /\ sentimentScore < 0
      THEN MoodAnalysis(sym, Bearish, Min(10000, Abs(priceChangePercent) * 5))
      ELSE IF volatility > 5000
      THEN MoodAnalysis(sym, Volatile, Min(10000, volatility))
      ELSE IF priceChangePercent > 500 /\ sentimentScore <= 0
      THEN MoodAnalysis(sym, IF volatility > 3000 THEN Volatile ELSE Neutral, 6000)
      ELSE IF priceChangePercent < -500 /\ sentimentScore >= 0
      THEN MoodAnalysis(sym, IF volatility > 3000 THEN Volatile ELSE Neutral, 6000)
      ELSE MoodAnalysis(sym, Neutral, 7000)

\* a decision with memory: without any signal, a symbol that has a token
\* recorded as Bullish stays Bullish
calculateMood_Hysteresis(marketData, sentimentData, volatility) ==
  LET priceChangePercent == marketData.priceChangePercent24h
      sentimentScore == sentimentData.score
      sym == marketData.symbol
      wasBullish == \E t \in DOMAIN tokenRegistry :
                      tokenRegistry[t] = sym /\ previousMoods[t] = Bullish
  IN  IF volatility > 5000
      THEN MoodAnalysis(sym, Volatile, Min(10000, volatility))
      ELSE IF sentimentScore > 6000 /\ sentimentData.confidence > 7000
      THEN MoodAnalysis(sym, PositiveSentiment, sentimentData.confidence)
      ELSE IF sentimentScore < -6000 /\ sentimentData.confidence > 7000
      THEN MoodAnalysis(sym, NegativeSentiment, sentimentData.confidence)
      ELSE IF priceChangePercent > 500 /\ sentimentScore > 0
      THEN MoodAnalysis(sym, Bullish, Min(10000, priceChangePercent * 5))
      ELSE IF priceChangePercent < -500 /\ sentimentScore < 0
      THEN MoodAnalysis(sym, Bearish, Min(10000, Abs(priceChangePercent) * 5))
      ELSE IF priceChangePercent > 500 /\ sentimentScore <= 0
      THEN MoodAnalysis(sym, IF volatility > 3000 THEN Volatile ELSE Neutral, 6000)
      ELSE IF priceChangePercent < -500 /\ sentimentScore >= 0
      THEN MoodAnalysis(sym, IF volatility > 3000 THEN Volatile ELSE Neutral, 6000)
      ELSE MoodAnalysis(sym, IF wasBullish THEN Bullish ELSE Neutral, 7000)

\* the confidences of the volatility and price rules are not capped at 1
calculateMood_Uncapped(marketData, sentimentData, volatility) ==
  LET priceChangePercent == marketData.priceChangePercent24h
      sentimentScore == sentimentData.score
      sym == marketData.symbol
  IN  IF volatility > 5000
      THEN MoodAnalysis(sym, Volatile, volatility)
      ELSE IF sentimentScore > 6000 /\ sentimentData.confidence > 7000
      THEN MoodAnalysis(sym, PositiveSentiment, sentimentData.confidence)
      ELSE IF sentimentScore < -6000 /\ sentimentData.confidence > 7000
      THEN MoodAnalysis(sym, NegativeSentiment, sentimentData.confidence)
      ELSE IF priceChangePercent > 500 /\ sentimentScore > 0
      THEN MoodAnalysis(sym, Bullish, priceChangePercent * 5)
      ELSE IF priceChangePercent < -500 /\ sentimentScore < 0
      THEN MoodAnalysis(sym, Bearish, Abs(priceChangePercent) * 5)
      ELSE IF priceChangePercent > 500 /\ sentimentScore <= 0
      THEN MoodAnalysis(sym, IF volatility > 3000 THEN Volatile ELSE Neutral, 6000)
      ELSE IF priceChangePercent < -500 /\ sentimentScore >= 0
      THEN MoodAnalysis(sym, IF volatility > 3000 THEN Volatile ELSE Neutral, 6000)
      ELSE MoodAnalysis(sym, Neutral, 7000)

\* MoodCalculator.calculateMood: the if / else-if chain, in the code's order
calculateMood(marketData, sentimentData, volatility) ==
  LET priceChangePercent == marketData.priceChangePercent24h
      sentimentScore == sentimentData.score
      sym == marketData.symbol
  IN  IF volatility > 5000
      THEN MoodAnalysis(sym, Volatile, Min(10000, volatility))
      ELSE IF sentimentScore > 6000 /\ sentimentData.confidence > 7000
      THEN MoodAnalysis(sym, PositiveSentiment, sentimentData.confidence)
      ELSE IF sentimentScore < -6000 /\ sentimentData.confidence > 7000
      THEN MoodAnalysis(sym, NegativeSentiment, sentimentData.confidence)
      ELSE IF priceChangePercent > 500 /\ sentimentScore > 0
      THEN MoodAnalysis(sym, Bullish, Min(10000, priceChangePercent * 5))
      ELSE IF priceChangePercent < -500 /\ sentimentScore < 0
      THEN MoodAnalysis(sym, Bearish, Min(10000, Abs(priceChangePercent) * 5))
      ELSE IF priceChangePercent > 500 /\ sentimentScore <= 0
      THEN MoodAnalysis(sym, IF volatility > 3000 THEN Volatile ELSE Neutral, 6000)
      ELSE IF priceChangePercent < -500 /\ sentimentScore >= 0
      THEN MoodAnalysis(sym, IF volatility > 3000 THEN Volatile ELSE Neutral, 6000)
      ELSE MoodAnalysis(sym, Neutral, 7000)

\* the gate is on the mood alone
shouldUpdateMood_MoodOnly(previousMood, newMood, newConfidence) ==
  previousMood # newMood

\* the gate is on the confidence alone
shouldUpdateMood_AnyConfident(previousMood, newMood, newConfidence) ==
  newConfidence > 6000

\* the gate compares with >= instead of >
shouldUpdateMood_AtThreshold(previousMood, newMood, newConfidence) ==
  previousMood # newMood /\ newConfidence >= 6000

\* MoodCalculator.shouldUpdateMood
shouldUpdateMood(previousMood, newMood, newConfidence) ==
  previousMood # newMood /\ newConfidence > 6000

\* ------------------------------------------------------------------------
\* SentimentAnalyzer
\* ------------------------------------------------------------------------

SENTIMENT_HISTORY_LIMIT == 50

\* priceChangePercent > k, where priceChangePercent is
\* priceChange24h / (price - priceChange24h) * 100 in floating point:
\* x / 0 is +Infinity or -Infinity by the sign of x, 0 / 0 is NaN, and every
\* comparison with NaN is false
TechPercentGT(marketData, k) ==
  LET change == marketData.priceChange24h
      base == marketData.price - marketData.priceChange24h
  IN  IF base > 0 THEN change * 100 > k * base
      ELSE IF base < 0 THEN change * 100 < k * base
      ELSE change > 0

\* priceChangePercent < k
TechPercentLT(marketData, k) ==
  LET change == marketData.priceChange24h
      base == marketData.price - marketData.priceChange24h
  IN  IF base > 0 THEN change * 100 < k * base
      ELSE IF base < 0 THEN change * 100 > k * base
      ELSE change < 0

\* the bands begin at their thresholds: >= 10, >= 5, <= -10, <= -5
analyzeTechnicalIndicators_AtThreshold(marketData) ==
  LET base == marketData.price - marketData.priceChange24h
      change == IF base < 0 THEN 0 - marketData.priceChange24h * 100
                ELSE marketData.priceChange24h * 100
      d == Abs(base)
      band == IF change > 0 /\ change >= 10 * d THEN 500
              ELSE IF change > 0 /\ change >= 5 * d THEN 300
              ELSE IF change > 0 THEN 100
              ELSE IF change < 0 /\ change <= -10 * d THEN -500
              ELSE IF change < 0 /\ change <= -5 * d THEN -300
              ELSE IF change < 0 THEN -100
              ELSE 0
      technicalScore == IF marketData.volume24h > 0
                        THEN (band * 12) \div 10
                        ELSE band
  IN  Max(-1000, Min(1000, technicalScore))

\* SentimentAnalyzer.analyzeTechnicalIndicators, in 1/1000
analyzeTechnicalIndicators(marketData) ==
  LET band == IF TechPercentGT(marketData, 10) THEN 500
              ELSE IF TechPercentGT(marketData, 5) THEN 300
              ELSE IF TechPercentGT(marketData, 0) THEN 100
              ELSE IF TechPercentLT(marketData, -10) THEN -500
              ELSE IF TechPercentLT(marketData, -5) THEN -300
              ELSE IF TechPercentLT(marketData, 0) THEN -100
              ELSE 0
      technicalScore == IF marketData.volume24h > 0
                        THEN (band * 12) \div 10
                        ELSE band
  IN  Max(-1000, Min(1000, technicalScore))

\* the vote percentages are divided by 50 instead of 100
analyzeSocialSentiment_Doubled(response) ==
  IF response = <<>> THEN 0
  ELSE LET upVotes == IF response[1].up = 0 THEN 50 ELSE response[1].up
           downVotes == IF response[1].down = 0 THEN 50 ELSE response[1].down
       IN  (upVotes - downVotes) * 20

\* SentimentAnalyzer.analyzeSocialSentiment, in 1/1000.  response is <<>>
\* when the request fails, else <<[up, down]>>: the two vote percentages
\* (whole percents); a missing or zero percentage reads as 50
analyzeSocialSentiment(response) ==
  IF response = <<>> THEN 0
  ELSE LET upVotes == IF response[1].up = 0 THEN 50 ELSE response[1].up
           downVotes == IF response[1].down = 0 THEN 50 ELSE response[1].down
       IN  (upVotes - downVotes) * 10

\* SentimentAnalyzer.analyzeOnChainMetrics, in 1/1000.  response is <<>> when
\* the request fails, else <<[volumeChange, marketCapChange]>> (percents)
analyzeOnChainMetrics(response) ==
  IF response = <<>> THEN 0
  ELSE LET volumeChange == response[1].volumeChange
           marketCapChange == response[1].marketCapChange
           volumePart == IF volumeChange > 20 THEN 400
                         ELSE IF volumeChange > 0 THEN 200
                         ELSE IF volumeChange < -20 THEN -400
                         ELSE IF volumeChange < 0 THEN -200
                         ELSE 0
           capPart == IF marketCapChange > 5 THEN 300
                      ELSE IF marketCapChange > 0 THEN 150
                      ELSE IF marketCapChange < -5 THEN -300
                      ELSE IF marketCapChange < 0 THEN -150
                      ELSE 0
       IN  Max(-1000, Min(1000, volumePart + capPart))

\* SentimentAnalyzer.analyzeSentiment: the sample it builds.  The score is
\* 0.3 social + 0.4 onChain + 0.3 technical (in 1/10000); the confidence is
\* 1 - sqrt(variance of the three signals), clamped to [0, 1] (in 1/10000,
\* rounded up to 1/1000)
SentimentSample(symbol, marketData, socialResponse, onChainResponse, timestamp) ==
  LET socialSentiment == analyzeSocialSentiment(socialResponse)
      onChainSentiment == analyzeOnChainMetrics(onChainResponse)
      technicalSentiment == analyzeTechnicalIndicators(marketData)
      combinedScore ==
        3 * socialSentiment + 4 * onChainSentiment + 3 * technicalSentiment
      total == socialSentiment + onChainSentiment + technicalSentiment
      \* 27 * variance: the sum of (3 x - total)^2 / 9, over 3
      sq == (3 * socialSentiment - total) * (3 * socialSentiment - total)
            + (3 * onChainSentiment - total) * (3 * onChainSentiment - total)
            + (3 * technicalSentiment - total) * (3 * technicalSentiment - total)
      rootVariance == FloorSqrtDiv(sq, 27, 0, 2000)
      confidence == 1000 - rootVariance
  IN  [symbol |-> symbol,
       score |-> combinedScore,
       confidence |-> 10 * Max(0, Min(1000, confidence)),
       social |-> socialSentiment,
       onChain |-> onChainSentiment,
       technical |-> technicalSentiment,
       timestamp |-> timestamp]

\* past the limit the new sample is dropped instead of the oldest
addToHistory_DropsNewest(history, data) ==
  LET pushed == Append(history, data)
  IN  IF Len(pushed) > SENTIMENT_HISTORY_LIMIT
      THEN SubSeq(pushed, 1, SENTIMENT_HISTORY_LIMIT)
      ELSE pushed

\* SentimentAnalyzer.addToHistory
addToHistory(history, data) ==
  LET pushed == Append(history, data)
  IN  IF Len(pushed) > SENTIMENT_HISTORY_LIMIT THEN Tail(pushed) ELSE pushed

\* ------------------------------------------------------------------------
\* MarketDataIndexer: price history, volatility
\* ------------------------------------------------------------------------

HISTORY_LIMIT == 100

\* the look-back the orchestrator passes to calculateVolatility, in minutes.
\* The runs explored are short next to it (at most MaxCycles cycles and
\* MaxMdiTicks firings of the one-minute timer): the clock stays at its first
\* reading and every sample recorded is inside the look-back
VolatilityPeriodMinutes == 60

\* volatility is reported in whole percents up to this cap: its only reader,
\* calculateMood, compares it with 30 and 50 and takes min(1, v / 100)
VolatilityCap == 100

\* the value that stands for a NaN volatility
VolatilityNaN == -1

\* the oldest sample is shifted out as soon as the limit is reached
addPricePoint_ShiftsAtLimit(history, price, timestamp) ==
  LET pushed == Append(history, [price |-> price, timestamp |-> timestamp])
  IN  IF Len(pushed) >= HISTORY_LIMIT THEN Tail(pushed) ELSE pushed

\* MarketDataIndexer.addPricePoint
addPricePoint(history, price, timestamp) ==
  LET pushed == Append(history, [price |-> price, timestamp |-> timestamp])
  IN  IF Len(pushed) > HISTORY_LIMIT THEN Tail(pushed) ELSE pushed

\* the greatest common divisor of the prices: returns are ratios of prices,
\* so dividing every price by it changes none
RECURSIVE PriceUnit(_)
PriceUnit(points) ==
  IF points = << >> THEN 0 ELSE GCD(points[1].price, PriceUnit(Tail(points)))

\* a common denominator of the returns: the product of the divisors
RECURSIVE ProductOfDivisors(_, _)
ProductOfDivisors(points, unit) ==
  IF Len(points) < 2 THEN 1
  ELSE (points[1].price \div unit) * ProductOfDivisors(Tail(points), unit)

\* the returns (p[i] - p[i-1]) / p[i-1] of the window, over the common
\* denominator d
ReturnsOver(points, d) ==
  [i \in 1..(Len(points) - 1) |->
     ((points[i + 1].price - points[i].price) * d) \div points[i].price]

\* MarketDataIndexer.calculateVolatility, in 1/100 of a percent.  A zero
\* divisor makes a return infinite or NaN, and the variance NaN
calculateVolatility(history, periodMinutes, currentTime) ==
  IF Len(history) < 2 THEN 0
  ELSE
    LET cutoff == currentTime - periodMinutes
        periodData == SelectSeq(history, LAMBDA point : point.timestamp >= cutoff)
    IN  IF Len(periodData) < 2 THEN 0
        ELSE IF \E i \in 1..(Len(periodData) - 1) : periodData[i].price = 0
        THEN VolatilityNaN
        ELSE
          LET d == ProductOfDivisors(periodData, PriceUnit(periodData))
              returns == ReturnsOver(periodData, d)
              n == Len(returns)
              total == SumSeq(returns)
              \* variance = sq / (n^3 d^2)
              sq == SumSeq([i \in 1..n |->
                      (n * returns[i] - total) * (n * returns[i] - total)])
              den == n * n * n * d * d
              periodsPerYear == (365 * 24 * 60) \div periodMinutes
              \* (volatility in percent)^2 = sq * periodsPerYear * 10^4 / den
              percent ==
                IF sq >= (den + periodsPerYear - 1) \div periodsPerYear
                THEN VolatilityCap
                ELSE CeilSqrtDiv(sq * periodsPerYear * 10000, den, 0, VolatilityCap)
          IN  100 * percent

\* ------------------------------------------------------------------------
\* Registry and cycles
\* ------------------------------------------------------------------------

\* the symbols both singletons are constructed with
Symbols == {"SOL", "DOT", "BTC"}

\* EchoMintIndexer.loadTokenRegistry
LoadedTokenRegistry == (1 :> "SOL") @@ (2 :> "DOT") @@ (3 :> "BTC")

TokenIds == DOMAIN LoadedTokenRegistry

CycleIds == 1..MaxCycles

\* runAnalysis before it is called.  order is the rank of the cycle among
\* the cycles that have run their change detection (0 before it has)
IdleCycle ==
  [pc |-> "idle",
   decided |-> FALSE,
   order |-> 0,
   fetchPending |-> {},
   marketData |-> [s \in Symbols |-> <<>>],
   sentimentPending |-> {},
   sentimentData |-> [s \in Symbols |-> <<>>],
   volatility |-> [s \in Symbols |-> 0],
   analysis |-> [t \in TokenIds |-> <<>>],
   previousMood |-> [t \in TokenIds |-> NoMood],
   moodUpdates |-> [t \in TokenIds |-> <<>>],
   sinkReady |-> FALSE,
   ready |-> "unchecked",
   results |-> [t \in TokenIds |-> <<>>]]

\* the arguments of a stand-alone decision, before any is drawn
NoDecisionInput ==
  [priceChangePercent24h |-> 0, score |-> 0, confidence |-> 0, volatility |-> 0]

\* ------------------------------------------------------------------------
\* Inputs: what the CoinGecko requests and the relayer connection return
\* ------------------------------------------------------------------------

\* a response of the market request of fetchMarketData:
\*   "error"     the request fails, or the body has no market_data: the
\*               exception is raised before addPricePoint
\*   "noPercent" the body has a price but price_change_percentage_24h is
\*               null: toFixed raises after addPricePoint
\*   "ok"        a complete body
\* Prices are in cents.
ErrorResponse ==
  [kind |-> "error", price |-> 0, volume24h |-> 0,
   priceChange24h |-> 0, priceChangePercent24h |-> 0]

NoPercentResponse ==
  [kind |-> "noPercent", price |-> 200, volume24h |-> 1,
   priceChange24h |-> 0, priceChangePercent24h |-> 0]

\* a market that has not moved in 24 hours
FlatMarket ==
  [kind |-> "ok", price |-> 200, volume24h |-> 1,
   priceChange24h |-> 0, priceChangePercent24h |-> 0]

\* the price has doubled in 24 hours: +100%
RisingMarket ==
  [kind |-> "ok", price |-> 200, volume24h |-> 1,
   priceChange24h |-> 100, priceChangePercent24h |-> 10000]

\* the percentage says +6%, the absolute change says 0
MixedMarket ==
  [kind |-> "ok", price |-> 200, volume24h |-> 1,
   priceChange24h |-> 0, priceChangePercent24h |-> 600]

\* the price has halved in 24 hours: -50%
HalvedMarket ==
  [kind |-> "ok", price |-> 100, volume24h |-> 1,
   priceChange24h |-> -100, priceChangePercent24h |-> -5000]

\* the responses CoinGecko gives to the successive requests for each symbol;
\* once they are used up the market is flat
MarketScript(sol, dot, btc) == ("SOL" :> sol) @@ ("DOT" :> dot) @@ ("BTC" :> btc)

SteadyMarket == MarketScript(<< >>, << >>, << >>)

\* the runs of the market that are explored
MarketScripts ==
  { SteadyMarket,
    MarketScript(<<FlatMarket, RisingMarket, MixedMarket>>,
                 <<FlatMarket, ErrorResponse>>,
                 <<FlatMarket, FlatMarket, HalvedMarket>>),
    MarketScript(<<FlatMarket, FlatMarket, RisingMarket>>,
                 <<FlatMarket, NoPercentResponse>>,
                 << >>),
    MarketScript(<<FlatMarket, FlatMarket, RisingMarket>>,
                 <<FlatMarket, FlatMarket, ErrorResponse>>,
                 << >>) }

\* the response to the next request for symbol
NextResponse(symbol) ==
  IF market[symbol] = << >> THEN FlatMarket ELSE Head(market[symbol])

\* market after that request
MarketAfterRequest(symbol) ==
  [market EXCEPT ![symbol] = IF @ = << >> THEN @ ELSE Tail(@)]

\* the two sentiment requests of analyzeSentiment (both fail here)
SocialResponses == { <<>> }

OnChainResponses == { <<>> }

\* HyperbridgeClient.connect: ApiPromise.create rejects, api.isReady
\* rejects, or both resolve
ConnectOutcomes == {"createFailed", "readyFailed", "connected"}

\* ------------------------------------------------------------------------
\* MarketDataIndexer.fetchMarketData
\* ------------------------------------------------------------------------

\* what fetchMarketData returns: <<>> for null, else <<the MarketData>>
FetchResult(symbol, response, timestamp) ==
  IF response.kind = "ok"
  THEN << [symbol |-> symbol,
           price |-> response.price,
           volume24h |-> response.volume24h,
           priceChange24h |-> response.priceChange24h,
           priceChangePercent24h |-> response.priceChangePercent24h,
           timestamp |-> timestamp] >>
  ELSE <<>>

\* whether fetchMarketData reaches addPricePoint (l.350) before it raises
FetchRecords(response) == response.kind \in {"ok", "noPercent"}

\* the sample is left to be recorded by the caller of fetchMarketData
PriceHistoryAfterFetch_NotRecorded(symbol, response) == priceHistory

\* priceHistory after fetchMarketData(symbol)
PriceHistoryAfterFetch(symbol, response) ==
  IF FetchRecords(response)
  THEN [priceHistory EXCEPT
          ![symbol] = addPricePoint(@, response.price, now)]
  ELSE priceHistory

\* ------------------------------------------------------------------------
\* HyperbridgeClient
\* ------------------------------------------------------------------------

\* ready as soon as the api object exists, connected or not
isReady_ApiOnly == api

\* HyperbridgeClient.isReady
isReady == isConnected /\ api

\* the connection test is on the api object alone
sendMoodUpdate_ApiOnly == api

\* the message is dispatched without the connection test
sendMoodUpdate_Unchecked == TRUE

\* HyperbridgeClient.sendMoodUpdate: its result; the simulated dispatch
\* cannot fail once the connection check has passed
sendMoodUpdate == isConnected /\ api

\* ------------------------------------------------------------------------
\* EchoMintIndexer: initialize and start
\* ------------------------------------------------------------------------

\* the state after construction, whatever the market
Constructed ==
  /\ indexerPc = "new"
  /\ tokenRegistry = << >>
  /\ previousMoods = [t \in TokenIds |-> NoMood]
  /\ updateInterval = "null"
  /\ api = FALSE
  /\ isConnected = FALSE
  /\ stopPc = "none"
  /\ exited = FALSE
  /\ priceHistory = [s \in Symbols |-> << >>]
  /\ updateTimer = "null"
  /\ mdiPending = [s \in Symbols |-> 0]
  /\ mdiTicks = 0
  /\ sentimentHistory = [s \in Symbols |-> << >>]
  /\ cycles = [c \in CycleIds |-> IdleCycle]
  /\ nCycles = 0
  /\ now = 0
  /\ initializeCalls = 0
  /\ decisionOutput = << >>
  /\ directCalls = 0
  /\ queryOutput = << >>

\* the market does not move
Init ==
  /\ Constructed
  /\ market = SteadyMarket
  /\ decisionInput = NoDecisionInput

\* the market follows one of the scripts
InitMarket ==
  /\ Constructed
  /\ market \in MarketScripts
  /\ decisionInput = NoDecisionInput

\* runAnalysis, l.93-100: the distinct symbols, one getCurrentData each
StartedCycle ==
  [IdleCycle EXCEPT
     !.pc = "fetch",
     !.fetchPending = {tokenRegistry[t] : t \in DOMAIN tokenRegistry}]

\* start() is called: initialize() loads the registry and awaits connect()
StartInitialize ==
  /\ ~exited
  /\ indexerPc = "new"
  /\ indexerPc' = "connecting"
  /\ tokenRegistry' = LoadedTokenRegistry
  /\ initializeCalls' = initializeCalls + 1
  /\ UNCHANGED <<previousMoods, updateInterval, api, isConnected, stopPc,
                 exited, priceHistory, updateTimer, mdiPending, mdiTicks,
                 sentimentHistory, cycles, nCycles, now, market,
                 decisionVars, directVars>>

\* once start() has returned, a user of the exported class calls the public
\* initialize() again (it is the one caller of connect()), at a moment when
\* no fetchAllMarketData is under way
InitializeAgain ==
  /\ ~exited
  /\ indexerPc = "running"
  /\ initializeCalls < MaxInitializeCalls
  /\ \A s \in Symbols : mdiPending[s] = 0
  /\ indexerPc' = "reconnecting"
  /\ tokenRegistry' = LoadedTokenRegistry
  /\ initializeCalls' = initializeCalls + 1
  /\ UNCHANGED <<previousMoods, updateInterval, api, isConnected, stopPc,
                 exited, priceHistory, updateTimer, mdiPending, mdiTicks,
                 sentimentHistory, cycles, nCycles, now, market,
                 decisionVars, directVars>>

\* connect() settles (its rejection is caught, l.35-39): api is assigned
\* once ApiPromise.create has resolved, isConnected once api.isReady has.
\* initialize() goes on to marketDataIndexer.start(), which issues its
\* initial fetchAllMarketData
ConnectDone(outcome) ==
  /\ ~exited
  /\ indexerPc \in {"connecting", "reconnecting"}
  /\ api' = (api \/ outcome # "createFailed")
  /\ isConnected' = (isConnected \/ outcome = "connected")
  /\ indexerPc' = IF indexerPc = "connecting" THEN "mdiStart" ELSE "mdiRestart"
  /\ mdiPending' = [s \in Symbols |-> mdiPending[s] + 1]
  /\ UNCHANGED <<tokenRegistry, previousMoods, updateInterval, stopPc, exited,
                 priceHistory, updateTimer, mdiTicks, sentimentHistory,
                 cycles, nCycles, now, market, initializeCalls, decisionVars,
                 directVars>>

\* one fetchMarketData of fetchAllMarketData settles.  When it is the last
\* one of the initial round, MarketDataIndexer.start() arms updateTimer and
\* initialize() returns: to start(), which calls runAnalysis for the first
\* time, or to the user who called it again
MdiFetchDone(symbol) ==
  LET last == \A s \in Symbols : mdiPending[s] = IF s = symbol THEN 1 ELSE 0
  IN  /\ ~exited
      /\ mdiPending[symbol] > 0
      /\ priceHistory' = PriceHistoryAfterFetch(symbol, NextResponse(symbol))
      /\ market' = MarketAfterRequest(symbol)
      /\ mdiPending' = [mdiPending EXCEPT ![symbol] = @ - 1]
      /\ IF indexerPc = "mdiStart" /\ last
         THEN /\ updateTimer' = "active"
              /\ indexerPc' = "firstCycle"
              /\ cycles' = [cycles EXCEPT ![1] = StartedCycle]
              /\ nCycles' = 1
         ELSE IF indexerPc = "mdiRestart" /\ last
         THEN /\ updateTimer' = "active"
              /\ indexerPc' = "running"
              /\ UNCHANGED <<cycles, nCycles>>
         ELSE UNCHANGED <<updateTimer, indexerPc, cycles, nCycles>>
      /\ UNCHANGED <<tokenRegistry, previousMoods, updateInterval, api,
                     isConnected, stopPc, exited, mdiTicks, sentimentHistory,
                     now, initializeCalls, decisionVars,
                     directVars>>

\* MarketDataIndexer's setInterval callback (every UPDATE_INTERVAL):
\* fetchAllMarketData
MdiTick ==
  /\ ~exited
  /\ updateTimer = "active"
  /\ mdiTicks < MaxMdiTicks
  /\ mdiTicks' = mdiTicks + 1
  /\ mdiPending' = [s \in Symbols |-> mdiPending[s] + 1]
  /\ UNCHANGED <<indexerPc, tokenRegistry, previousMoods, updateInterval, api,
                 isConnected, stopPc, exited, priceHistory, updateTimer,
                 sentimentHistory, cycles, nCycles, now, market,
                 initializeCalls, decisionVars,
                 directVars>>

\* EchoMintIndexer's setInterval callback: runAnalysis, whether or not an
\* earlier call is still awaiting
Tick ==
  /\ ~exited
  /\ updateInterval = "active"
  /\ nCycles < MaxCycles
  /\ nCycles' = nCycles + 1
  /\ cycles' = [cycles EXCEPT ![nCycles + 1] = StartedCycle]
  /\ UNCHANGED <<indexerPc, tokenRegistry, previousMoods, updateInterval, api,
                 isConnected, stopPc, exited, priceHistory, updateTimer,
                 mdiPending, mdiTicks, sentimentHistory, now, market,
                 initializeCalls, decisionVars,
                 directVars>>

\* ------------------------------------------------------------------------
\* EchoMintIndexer.runAnalysis
\* ------------------------------------------------------------------------

\* start() awaits the first runAnalysis and then arms the timer (l.72-78)
IndexerPcAfterCycle(c) == IF c = 1 THEN "running" ELSE indexerPc

UpdateIntervalAfterCycle(c) == IF c = 1 THEN "active" ELSE updateInterval

\* l.126: volatilityMap.get(symbol) || 0 (NaN is falsy)
VolatilityOrZero(v) == IF v = VolatilityNaN THEN 0 ELSE v

\* l.124-133: the analysis of one token, <<>> without snapshot or sentiment
AnalysisOf(cyc, volatilityMap, t) ==
  LET symbol == tokenRegistry[t]
  IN  IF cyc.marketData[symbol] # << >> /\ cyc.sentimentData[symbol] # << >>
      THEN << calculateMood(cyc.marketData[symbol][1],
                            cyc.sentimentData[symbol][1],
                            VolatilityOrZero(volatilityMap[symbol])) >>
      ELSE << >>

\* l.139-142: the condition under which a token enters moodUpdates
MoodChanged(previousMood, moodAnalysis) ==
  \/ previousMood = NoMood
  \/ shouldUpdateMood(previousMood, moodAnalysis.mood, moodAnalysis.confidence)

\* l.121-150: moodUpdates, given the analyses
MoodUpdatesOf(analysis) ==
  [t \in TokenIds |->
     IF analysis[t] # << >> /\ MoodChanged(previousMoods[t], analysis[t][1])
     THEN analysis[t]
     ELSE << >>]

\* the table is left to be written once the batch has been delivered
PreviousMoodsAfter_Deferred(moodUpdates) == previousMoods

\* the table rebuilt from the batch: tokens outside it lose their entry
PreviousMoodsAfter_Rebuilt(moodUpdates) ==
  [t \in TokenIds |->
     IF moodUpdates[t] # << >>
     THEN moodUpdates[t][1].mood
     ELSE NoMood]

\* l.144: previousMoods after the loop, set where moodUpdates is set
PreviousMoodsAfter(moodUpdates) ==
  [t \in TokenIds |->
     IF moodUpdates[t] # << >>
     THEN moodUpdates[t][1].mood
     ELSE previousMoods[t]]

\* steps 3 to 5, which run without awaiting once the last analyzeSentiment
\* has settled: the volatilities, the moods, the change detection and the
\* isReady() test.  cyc holds the joined results, history is priceHistory.
\* With an empty batch or a sink that is not ready, runAnalysis ends here
Decide(c, cyc, history) ==
  LET volatilityMap ==
        [s \in Symbols |->
           calculateVolatility(history[s], VolatilityPeriodMinutes, now)]
      analysis == [t \in TokenIds |-> AnalysisOf(cyc, volatilityMap, t)]
      moodUpdates == MoodUpdatesOf(analysis)
      nonEmpty == \E t \in TokenIds : moodUpdates[t] # << >>
      sending == nonEmpty /\ isReady
  IN  /\ previousMoods' = PreviousMoodsAfter(moodUpdates)
      /\ cycles' = [cycles EXCEPT ![c] =
           [cyc EXCEPT
              !.decided = TRUE,
              !.order = Cardinality({d \in CycleIds : cycles[d].decided}) + 1,
              !.volatility = volatilityMap,
              !.analysis = analysis,
              !.previousMood = previousMoods,
              !.moodUpdates = moodUpdates,
              !.sinkReady = isReady,
              !.ready = IF ~nonEmpty THEN "unchecked"
                        ELSE IF isReady THEN "ready" ELSE "offline",
              !.pc = IF sending THEN "send" ELSE "done"]]
      /\ indexerPc' = IF sending THEN indexerPc ELSE IndexerPcAfterCycle(c)
      /\ updateInterval' =
           IF sending THEN updateInterval ELSE UpdateIntervalAfterCycle(c)

\* the continuation of the first Promise.all runs with every getCurrentData
\* of the cycle settled, whatever one of them returned
Joined_Pipeline(cyc, pending) == cyc.pc = "fetch"

\* l.97-101: await Promise.all(marketDataPromises) resumes runAnalysis once
\* no getCurrentData of the cycle is pending
Joined(cyc, pending) == cyc.pc = "fetch" /\ pending = {}

\* step 1: getCurrentData(symbol) settles.  After the last one (Promise.all)
\* the non-null results are handed to analyzeSentiment; when there is none,
\* the second Promise.all is of nothing and runAnalysis goes on to step 3.
\* The requests of a cycle that has failed meanwhile still settle
FetchDone(c, symbol) ==
  LET cyc == cycles[c]
      response == NextResponse(symbol)
      md == [cyc.marketData EXCEPT ![symbol] = FetchResult(symbol, response, now)]
      pending == cyc.fetchPending \ {symbol}
      toAnalyze == {s \in Symbols : md[s] # << >>}
      joined == Joined(cyc, pending)
      fetched == [cyc EXCEPT
                    !.marketData = md,
                    !.fetchPending = pending,
                    !.sentimentPending = IF joined THEN toAnalyze ELSE {},
                    !.pc = IF joined THEN "sentiment" ELSE cyc.pc]
      history == PriceHistoryAfterFetch(symbol, response)
  IN  /\ ~exited
      /\ cyc.pc \in {"fetch", "failed"}
      /\ symbol \in cyc.fetchPending
      /\ priceHistory' = history
      /\ market' = MarketAfterRequest(symbol)
      /\ IF joined /\ toAnalyze = {}
         THEN Decide(c, fetched, history)
         ELSE /\ cycles' = [cycles EXCEPT ![c] = fetched]
              /\ UNCHANGED <<previousMoods, indexerPc, updateInterval>>
      /\ UNCHANGED <<tokenRegistry, api, isConnected, stopPc, exited,
                     updateTimer, mdiPending, mdiTicks, sentimentHistory,
                     nCycles, now, initializeCalls, decisionVars,
                     directVars>>

\* step 2: analyzeSentiment(symbol, marketData) settles; after the last one
\* runAnalysis goes on to steps 3 to 5
SentimentDone(c, symbol, socialResponse, onChainResponse) ==
  LET cyc == cycles[c]
      sample == SentimentSample(symbol, cyc.marketData[symbol][1],
                                socialResponse, onChainResponse, now)
      pending == cyc.sentimentPending \ {symbol}
      analyzed == [cyc EXCEPT
                     !.sentimentData = [@ EXCEPT ![symbol] = << sample >>],
                     !.sentimentPending = pending]
  IN  /\ ~exited
      /\ cyc.pc \in {"sentiment", "failed"}
      /\ symbol \in cyc.sentimentPending
      /\ sentimentHistory' =
           [sentimentHistory EXCEPT ![symbol] = addToHistory(@, sample)]
      /\ IF cyc.pc = "sentiment" /\ pending = {}
         THEN Decide(c, analyzed, priceHistory)
         ELSE /\ cycles' = [cycles EXCEPT ![c] = analyzed]
              /\ UNCHANGED <<previousMoods, indexerPc, updateInterval>>
      /\ UNCHANGED <<tokenRegistry, api, isConnected, stopPc, exited,
                     priceHistory, updateTimer, mdiPending, mdiTicks, nCycles,
                     now, market, initializeCalls, decisionVars,
                     directVars>>

\* the loop is left at the first item whose send returns false
Unsent_StopsAtFailure(cyc) ==
  {t \in TokenIds :
     /\ cyc.moodUpdates[t] # << >>
     /\ cyc.results[t] = << >>
     /\ \A u \in TokenIds : cyc.results[u] # << FALSE >>}

\* the tokens of the batch that batchSendMoodUpdates has not sent yet
Unsent(cyc) ==
  {t \in TokenIds : cyc.moodUpdates[t] # << >> /\ cyc.results[t] = << >>}

\* batchSendMoodUpdates: one iteration of its loop (Map order is the order
\* of insertion, the ascending tokenIds of Object.entries): sendMoodUpdate,
\* results.set, delay.  After the last one runAnalysis ends
SendItem(c) ==
  LET cyc == cycles[c]
      t == CHOOSE x \in Unsent(cyc) : \A y \in Unsent(cyc) : x <= y
      last == Unsent(cyc) = {t}
  IN  /\ ~exited
      /\ cyc.pc = "send"
      /\ Unsent(cyc) # {}
      /\ cycles' = [cycles EXCEPT ![c] =
           [cyc EXCEPT
              !.results = [@ EXCEPT ![t] = << sendMoodUpdate >>],
              !.pc = IF last THEN "done" ELSE "send"]]
      /\ indexerPc' = IF last THEN IndexerPcAfterCycle(c) ELSE indexerPc
      /\ updateInterval' =
           IF last THEN UpdateIntervalAfterCycle(c) ELSE updateInterval
      /\ UNCHANGED <<tokenRegistry, previousMoods, api, isConnected, stopPc,
                     exited, priceHistory, updateTimer, mdiPending, mdiTicks,
                     sentimentHistory, nCycles, now, market, initializeCalls,
                     decisionVars, directVars>>

\* the catch clause lets the exception go on to the caller of runAnalysis:
\* start() rejects and main() exits, or the timer callback's promise rejects
\* unhandled and the process exits
ExitedAfterThrow_Rethrown(c) == TRUE

\* l.181-183: the catch clause of runAnalysis logs the exception and
\* returns; the process goes on
ExitedAfterThrow(c) == exited

\* an exception is raised inside the try block of runAnalysis (by the code
\* that runs between two awaits, or by an awaited call that rejects):
\* control goes to the catch clause and runAnalysis returns.  The requests
\* the cycle has under way still settle
Throw(c) ==
  LET cyc == cycles[c]
  IN  /\ ~exited
      /\ cyc.pc \in {"fetch", "sentiment", "send"}
      /\ Cardinality({f \in CycleIds : cycles[f].pc = "failed"}) < MaxFailedCycles
      /\ cycles' = [cycles EXCEPT ![c] = [cyc EXCEPT !.pc = "failed"]]
      /\ exited' = ExitedAfterThrow(c)
      /\ indexerPc' = IndexerPcAfterCycle(c)
      /\ updateInterval' = UpdateIntervalAfterCycle(c)
      /\ UNCHANGED <<tokenRegistry, previousMoods, api, isConnected, stopPc,
                     priceHistory, updateTimer, mdiPending, mdiTicks,
                     sentimentHistory, nCycles, now, market, initializeCalls,
                     decisionVars, directVars>>

\* ------------------------------------------------------------------------
\* EchoMintIndexer.stop
\* ------------------------------------------------------------------------

Cleared(timer) == IF timer = "active" THEN "cleared" ELSE timer

\* stop() is called, by the signal handler (which exits the process once
\* stop() has returned) or by a user of the exported class (who does not):
\* both timers are cleared if set, and disconnect() awaits api.disconnect()
\* if api is defined, else stop() returns at once
StopBegin(bySignal) ==
  /\ ~exited
  /\ stopPc = "none"
  /\ updateInterval' = Cleared(updateInterval)
  /\ updateTimer' = Cleared(updateTimer)
  /\ stopPc' = IF api THEN "disconnecting" ELSE "done"
  /\ exited' = (~api /\ bySignal)
  /\ UNCHANGED <<indexerPc, tokenRegistry, previousMoods, api, isConnected,
                 priceHistory, mdiPending, mdiTicks, sentimentHistory, cycles,
                 nCycles, now, market, initializeCalls, decisionVars,
                 directVars>>

\* api.disconnect() resolves: isConnected = false, stop() returns, and the
\* signal handler exits the process
StopEnd(bySignal) ==
  /\ ~exited
  /\ stopPc = "disconnecting"
  /\ isConnected' = FALSE
  /\ stopPc' = "done"
  /\ exited' = bySignal
  /\ UNCHANGED <<indexerPc, tokenRegistry, previousMoods, updateInterval, api,
                 priceHistory, updateTimer, mdiPending, mdiTicks,
                 sentimentHistory, cycles, nCycles, now, market,
                 initializeCalls, decisionVars,
                 directVars>>

\* ------------------------------------------------------------------------
\* MoodCalculator.calculateMood on its own
\* ------------------------------------------------------------------------

\* the arguments a stand-alone call is made with: the thresholds of the
\* decision, their neighbours, and the values of the documented scenarios
PriceChangePercents ==
  {-2500, -700, -600, -501, -500, 0, 50, 100, 500, 501, 600, 700, 1200, 1201,
   2000, 2500}

SentimentScores ==
  {-7500, -6001, -6000, -2000, -1000, -1, 0, 1, 500, 2000, 6000, 6001, 7500}

SentimentConfidences == {0, 5000, 7000, 7001, 8000, 10000}

Volatilities ==
  {0, 200, 500, 1000, 3000, 3001, 3500, 5000, 5001, 5500, 6000, 6001, 7500,
   10000, 15000}

DecisionInputs ==
  [priceChangePercent24h : PriceChangePercents,
   score : SentimentScores,
   confidence : SentimentConfidences,
   volatility : Volatilities]

InitMood ==
  /\ Constructed
  /\ market = SteadyMarket
  /\ decisionInput \in DecisionInputs

\* moodCalculator.calculateMood(marketData, sentimentData, volatility)
Evaluate ==
  /\ decisionOutput = << >>
  /\ decisionOutput' =
       << calculateMood(
            [symbol |-> "SOL",
             priceChangePercent24h |-> decisionInput.priceChangePercent24h],
            [score |-> decisionInput.score,
             confidence |-> decisionInput.confidence],
            decisionInput.volatility) >>
  /\ UNCHANGED <<indexerPc, tokenRegistry, previousMoods, updateInterval, api,
                 isConnected, stopPc, exited, priceHistory, updateTimer,
                 mdiPending, mdiTicks, sentimentHistory, cycles, nCycles, now,
                 market, initializeCalls, decisionInput, directVars>>

\* ------------------------------------------------------------------------
\* The program
\* ------------------------------------------------------------------------

\* everything but the periodic timer of MarketDataIndexer
NextAnalysis ==
  \/ StartInitialize
  \/ \E outcome \in ConnectOutcomes : ConnectDone(outcome)
  \/ \E s \in Symbols : MdiFetchDone(s)
  \/ Tick
  \/ \E c \in CycleIds, s \in Symbols : FetchDone(c, s)
  \/ \E c \in CycleIds, s \in Symbols, so \in SocialResponses,
        oc \in OnChainResponses : SentimentDone(c, s, so, oc)
  \/ \E c \in CycleIds : SendItem(c)
  \/ \E bySignal \in BOOLEAN : StopBegin(bySignal)
  \/ \E bySignal \in BOOLEAN : StopEnd(bySignal)

Next ==
  \/ NextAnalysis
  \/ MdiTick

\* the program in a steady market
Spec == Init /\ [][Next]_vars

\* the analysis cycles in a moving market
SpecMarket == InitMarket /\ [][NextAnalysis]_vars

\* the analysis cycles with exceptions raised in them
NextFault ==
  \/ NextAnalysis
  \/ \E c \in CycleIds : Throw(c)

SpecFault == Init /\ [][NextFault]_vars

\* the analysis cycles of an indexer that is initialized again
NextReconnect ==
  \/ NextAnalysis
  \/ InitializeAgain

SpecReconnect == Init /\ [][NextReconnect]_vars

\* the mood decision alone
NextMood == Evaluate

SpecMood == InitMood /\ [][NextMood]_vars

\* ------------------------------------------------------------------------
\* The mood decision (C5, C6)
\* ------------------------------------------------------------------------

\* the decision list as documented: whether rule i applies to the input x
RuleApplies(i, x) ==
  CASE i = 1 -> x.volatility > 5000
    [] i = 2 -> x.score > 6000 /\ x.confidence > 7000
    [] i = 3 -> x.score < -6000 /\ x.confidence > 7000
    [] i = 4 -> x.priceChangePercent24h > 500 /\ x.score > 0
    [] i = 5 -> x.priceChangePercent24h < -500 /\ x.score < 0
    [] i = 6 -> x.priceChangePercent24h > 500 /\ x.score <= 0
    [] i = 7 -> x.priceChangePercent24h < -500 /\ x.score >= 0
    [] i = 8 -> TRUE

\* the <<mood, confidence>> rule i gives for the input x
RuleOutcome(i, x) ==
  CASE i = 1 -> <<Volatile, Min(10000, x.volatility)>>
    [] i = 2 -> <<PositiveSentiment, x.confidence>>
    [] i = 3 -> <<NegativeSentiment, x.confidence>>
    [] i = 4 -> <<Bullish, Min(10000, x.priceChangePercent24h * 5)>>
    [] i = 5 -> <<Bearish, Min(10000, (0 - x.priceChangePercent24h) * 5)>>
    [] i = 6 -> <<IF x.volatility > 3000 THEN Volatile ELSE Neutral, 6000>>
    [] i = 7 -> <<IF x.volatility > 3000 THEN Volatile ELSE Neutral, 6000>>
    [] i = 8 -> <<Neutral, 7000>>

\* the first rule of the list that applies
FirstRule(x) ==
  CHOOSE i \in 1..8 : RuleApplies(i, x) /\ \A j \in 1..(i - 1) : ~RuleApplies(j, x)

\* the input is the documented scenario with these values (any sentiment
\* confidence where the scenario gives none)
IsScenario(x, priceChange, sentiment, volatility) ==
  /\ x.priceChangePercent24h = priceChange
  /\ x.score = sentiment
  /\ x.volatility = volatility

Decided == decisionOutput # << >>

DecidedPair == <<decisionOutput[1].mood, decisionOutput[1].confidence>>

\* C5: calculateMood gives, for every input, the mood and the confidence of
\* the first rule of the documented priority list that applies; in
\* particular Scenarios A to E give Bullish 0.3, Volatile 0.55,
\* PositiveSentiment 0.8, Volatile 0.6 and Neutral 0.7.
C5_PriorityList ==
  Decided =>
    /\ DecidedPair = RuleOutcome(FirstRule(decisionInput), decisionInput)
    /\ IsScenario(decisionInput, 600, 2000, 1000)
          => DecidedPair = <<Bullish, 3000>>
    /\ IsScenario(decisionInput, -600, -1000, 5500)
          => DecidedPair = <<Volatile, 5500>>
    /\ IsScenario(decisionInput, 100, 7500, 500) /\ decisionInput.confidence = 8000
          => DecidedPair = <<PositiveSentiment, 8000>>
    /\ IsScenario(decisionInput, 700, -2000, 3500)
          => DecidedPair = <<Volatile, 6000>>
    /\ IsScenario(decisionInput, 50, 500, 200)
          => DecidedPair = <<Neutral, 7000>>

\* Scenario D has been decided: the mixed-signal rule 6 with volatility 35
C5_Witness ==
  /\ Decided
  /\ IsScenario(decisionInput, 700, -2000, 3500)
  /\ FirstRule(decisionInput) = 6
  /\ DecidedPair = <<Volatile, 6000>>

\* C6: whenever volatility is above 50 the mood is Volatile with confidence
\* min(1, volatility / 100), whatever the price change, the sentiment score
\* and the sentiment confidence are.
C6_VolatilityDominates ==
  Decided /\ decisionInput.volatility > 5000 =>
    /\ decisionOutput[1].mood = Volatile
    /\ decisionOutput[1].confidence =
         (IF decisionInput.volatility >= 10000 THEN 10000
          ELSE decisionInput.volatility)
    /\ decisionInput.volatility = 7500 => decisionOutput[1].confidence = 7500

\* volatility 75 with a strong, confident sentiment and a large price move:
\* rules 2 and 4 would apply
C6_Witness ==
  /\ Decided
  /\ decisionInput.volatility = 7500
  /\ decisionInput.score = 7500
  /\ decisionInput.confidence = 8000
  /\ decisionInput.priceChangePercent24h = 2500
  /\ DecidedPair = <<Volatile, 7500>>


\* ------------------------------------------------------------------------
\* Change detection and dispatch (C1 to C4)
\* ------------------------------------------------------------------------

\* the cycles that have run their change detection, with the tokens they
\* computed a mood for
Analysed ==
  {x \in CycleIds \X TokenIds :
     cycles[x[1]].decided /\ cycles[x[1]].analysis[x[2]] # << >>}

Candidate(x) == cycles[x[1]].analysis[x[2]][1]

RecordedMood(x) == cycles[x[1]].previousMood[x[2]]

Selected(x) == cycles[x[1]].moodUpdates[x[2]] # << >>

\* C1: in every cycle a freshly computed mood is selected for the batch if
\* and only if the token has no previous mood recorded, or the mood differs
\* from the recorded one and its confidence is strictly above 0.6.
C1_ChangeDetection ==
  \A x \in Analysed :
    /\ Selected(x) <=>
         \/ RecordedMood(x) = NoMood
         \/ /\ Candidate(x).mood # RecordedMood(x)
            /\ Candidate(x).confidence > 6000
    /\ Selected(x) => cycles[x[1]].moodUpdates[x[2]][1] = Candidate(x)

\* one run in which a different mood at confidence exactly 0.6 was held
\* back, a different mood at a higher confidence was selected, and an
\* unchanged mood was held back
C1_Witness ==
  /\ \E x \in Analysed :
       /\ RecordedMood(x) \notin {NoMood, Candidate(x).mood}
       /\ Candidate(x).confidence = 6000
       /\ ~Selected(x)
  /\ \E x \in Analysed :
       /\ RecordedMood(x) \notin {NoMood, Candidate(x).mood}
       /\ Candidate(x).confidence > 6000
       /\ Selected(x)
  /\ \E x \in Analysed :
       /\ RecordedMood(x) = Candidate(x).mood
       /\ ~Selected(x)

\* cycle c runs its change detection in this step
Decides(c) == ~cycles[c].decided /\ cycles'[c].decided

\* C2: a cycle that finds the sink not ready sends nothing and leaves the
\* previous mood of every token of its batch as it was.
C2_OfflineLeavesTable ==
  [][\A c \in CycleIds :
       Decides(c) /\ cycles'[c].ready = "offline" =>
         /\ cycles'[c].pc = "done"
         /\ \A t \in TokenIds :
              cycles'[c].moodUpdates[t] # << >> =>
                previousMoods'[t] = previousMoods[t]]_vars

\* C3: a token whose update was warranted in cycle c while the sink was
\* not ready is in the batch of cycle c + 1 when the sink is ready then and
\* the same mood is computed with a confidence above 0.6.
C3_ResubmittedWhenReady ==
  \A c \in CycleIds \ {MaxCycles} : \A t \in TokenIds :
    ( /\ cycles[c].decided
      /\ cycles[c].ready = "offline"
      /\ cycles[c].moodUpdates[t] # << >>
      /\ cycles[c + 1].decided
      /\ cycles[c + 1].sinkReady
      /\ cycles[c + 1].analysis[t] # << >>
      /\ cycles[c + 1].analysis[t][1].mood = cycles[c].moodUpdates[t][1].mood
      /\ cycles[c + 1].analysis[t][1].confidence > 6000 )
    => cycles[c + 1].moodUpdates[t] # << >>

\* cycle c returns from batchSendMoodUpdates in this step
FinishesBatch(c) == cycles[c].pc = "send" /\ cycles'[c].pc = "done"

\* C4: when a cycle that found the sink ready has sent its batch, every
\* item has been sent and the previous mood of every token of the batch is
\* the mood batched for it, whatever the item's send returned.
C4_TableHoldsBatch ==
  [][\A c \in CycleIds :
       FinishesBatch(c) =>
         \A t \in TokenIds :
           cycles'[c].moodUpdates[t] # << >> =>
             /\ cycles'[c].results[t] # << >>
             /\ previousMoods'[t] = cycles'[c].moodUpdates[t][1].mood]_vars

\* ------------------------------------------------------------------------
\* Purity of the decision (C7)
\* ------------------------------------------------------------------------

\* what calculateMood was called with for token x[2] in cycle x[1]
DecisionInputOf(x) ==
  LET cyc == cycles[x[1]]
      symbol == tokenRegistry[x[2]]
  IN  <<cyc.marketData[symbol][1].priceChangePercent24h,
        cyc.sentimentData[symbol][1].score,
        cyc.sentimentData[symbol][1].confidence,
        VolatilityOrZero(cyc.volatility[symbol])>>

InProgress == {c \in CycleIds : cycles[c].pc \in {"fetch", "sentiment", "send"}}

\* C8: at most one analysis cycle is in progress at any time.
C8_OneCycleAtATime == Cardinality(InProgress) <= 1

\* C9: an exception raised inside a cycle ends that cycle only: unless
\* stop() has been called, the process goes on, start() has gone on to arm
\* the timer, the timer is armed, and its next tick starts a new cycle.
C9_CycleIsolation ==
  \A c \in CycleIds :
    cycles[c].pc = "failed" /\ stopPc = "none" =>
      /\ ~exited
      /\ indexerPc = "running"
      /\ updateInterval = "active"
      /\ nCycles < MaxCycles => ENABLED Tick

\* the first cycle has failed and the cycle of the next tick has run to its
\* end
C9_Witness ==
  /\ cycles[1].pc = "failed"
  /\ stopPc = "none"
  /\ cycles[2].decided
  /\ cycles[2].pc = "done"

\* the getCurrentData of symbol s in cycle c settles with null in this step
FetchFails(c, s) ==
  /\ cycles[c].pc = "fetch"
  /\ s \in cycles[c].fetchPending
  /\ s \notin cycles'[c].fetchPending
  /\ cycles'[c].marketData[s] = << >>

\* C10: a fetch that fails records no price sample; the cycle goes on, the
\* tokens of a symbol without snapshot are not in the batch and keep their
\* previous mood, and every token of a symbol with a snapshot is decided.
C10_FailedFetchSkipsSymbol ==
  [][/\ \A c \in CycleIds : \A s \in Symbols :
          FetchFails(c, s) => priceHistory'[s] = priceHistory[s]
     /\ \A c \in CycleIds : \A t \in TokenIds :
          Decides(c) =>
            IF cycles'[c].marketData[tokenRegistry[t]] = << >>
            THEN /\ cycles'[c].moodUpdates[t] = << >>
                 /\ previousMoods'[t] = previousMoods[t]
            ELSE cycles'[c].analysis[t] # << >>]_vars

\* ------------------------------------------------------------------------
\* The fetch barrier (C11)
\* ------------------------------------------------------------------------

\* the tokens cycle c has computed a mood for
DecidedTokens(c) == {t \in TokenIds : cycles[c].analysis[t] # << >>}

\* C11: in a cycle, no sentiment is analysed and no mood is decided while a
\* snapshot fetch of the cycle is pending; while the cycle awaits its
\* fetches, any pending one may be the next to settle.
C11_FetchBarrier ==
  \A c \in CycleIds :
    /\ ( \/ cycles[c].decided
         \/ DecidedTokens(c) # {}
         \/ cycles[c].pc \in {"sentiment", "send", "done"} )
       => cycles[c].fetchPending = {}
    /\ cycles[c].pc = "fetch" /\ ~exited =>
         \A s \in cycles[c].fetchPending : ENABLED FetchDone(c, s)

\* a cycle has decided moods after one of its fetches failed and the others
\* succeeded
C11_Witness ==
  \E c \in CycleIds :
    /\ cycles[c].decided
    /\ DecidedTokens(c) # {}
    /\ \E s \in Symbols : cycles[c].marketData[s] = << >>
    /\ cycles[c].fetchPending = {}

\* ------------------------------------------------------------------------
\* Calls made directly on the exported singleton marketDataIndexer
\* ------------------------------------------------------------------------

\* direct calls that record or analyse, per run
MaxDirectCalls == 2

\* minutes the clock is let advance per run
MaxElapsedMinutes == 80

\* the clock reading at which the direct calls begin (the histories drawn
\* below hold one sample per 20 minutes up to that moment)
StartOfDirectCalls == 20 * HISTORY_LIMIT

\* a price history the indexer can have built by then: n samples, 20
\* minutes apart, the last one just taken, the price steady at 2.00
RecordedHistory(n) ==
  [i \in 1..n |->
     [price |-> 200, timestamp |-> StartOfDirectCalls - 20 * (n - i)]]

\* the lengths drawn for the history of SOL: around 0 and around the limit
PriceHistoryLengths == {0, 1, 2, HISTORY_LIMIT - 1, HISTORY_LIMIT}

\* the price has doubled to 4.00 in 24 hours
DoubledMarket ==
  [kind |-> "ok", price |-> 400, volume24h |-> 1,
   priceChange24h |-> 200, priceChangePercent24h |-> 10000]

\* the price has fallen to 0 in 24 hours
WorthlessMarket ==
  [kind |-> "ok", price |-> 0, volume24h |-> 0,
   priceChange24h |-> -200, priceChangePercent24h |-> -10000]

\* the responses CoinGecko gives to a direct getCurrentData
DirectResponses ==
  {FlatMarket, DoubledMarket, WorthlessMarket, ErrorResponse,
   NoPercentResponse}

\* a symbol the indexer was not constructed with
UnknownSymbol == "ETH"

\* this.priceHistory.get(symbol): <<>> stands for undefined, which both
\* readers treat as a history shorter than 2
HistoryOf(symbol) ==
  IF symbol \in DOMAIN priceHistory THEN priceHistory[symbol] ELSE << >>

\* the samples of history that are inside the look-back at currentTime
PeriodData(history, periodMinutes, currentTime) ==
  SelectSeq(history,
            LAMBDA point : point.timestamp >= currentTime - periodMinutes)

\* the look-back is ignored: the first and the last sample of the whole
\* history are compared
calculateMomentum_WholeHistory(history, periodMinutes, currentTime) ==
  IF Len(history) < 2 THEN << 0 >>
  ELSE IF history[1].price = 0 THEN << >>
  ELSE << ((history[Len(history)].price - history[1].price) * 10000)
            \div history[1].price >>

\* MarketDataIndexer.calculateMomentum, in 1/100 of a percent (rounded
\* down): <<m>>, or <<>> when the first price of the window is 0 and the
\* quotient is infinite or NaN
calculateMomentum(history, periodMinutes, currentTime) ==
  IF Len(history) < 2 THEN << 0 >>
  ELSE
    LET periodData == PeriodData(history, periodMinutes, currentTime)
    IN  IF Len(periodData) < 2 THEN << 0 >>
        ELSE
          LET firstPrice == periodData[1].price
              lastPrice == periodData[Len(periodData)].price
          IN  IF firstPrice = 0 THEN << >>
              ELSE << ((lastPrice - firstPrice) * 10000) \div firstPrice >>

\* the state in which the direct calls begin: nothing started, SOL with a
\* history of one of the lengths, DOT with two samples, BTC with none
InitBuffers ==
  /\ indexerPc = "new"
  /\ tokenRegistry = << >>
  /\ previousMoods = [t \in TokenIds |-> NoMood]
  /\ updateInterval = "null"
  /\ api = FALSE
  /\ isConnected = FALSE
  /\ stopPc = "none"
  /\ exited = FALSE
  /\ \E n \in PriceHistoryLengths :
       priceHistory = ("SOL" :> RecordedHistory(n))
                      @@ ("DOT" :> RecordedHistory(2))
                      @@ ("BTC" :> << >>)
  /\ updateTimer = "null"
  /\ mdiPending = [s \in Symbols |-> 0]
  /\ mdiTicks = 0
  /\ sentimentHistory = [s \in Symbols |-> << >>]
  /\ cycles = [c \in CycleIds |-> IdleCycle]
  /\ nCycles = 0
  /\ now = StartOfDirectCalls
  /\ market = SteadyMarket
  /\ initializeCalls = 0
  /\ decisionInput = NoDecisionInput
  /\ decisionOutput = << >>
  /\ directCalls = 0
  /\ queryOutput = << >>

\* marketDataIndexer.getCurrentData(symbol), from the request to the
\* response: fetchMarketData
GetCurrentData(symbol, response) ==
  /\ directCalls < MaxDirectCalls
  /\ directCalls' = directCalls + 1
  /\ priceHistory' = PriceHistoryAfterFetch(symbol, response)
  /\ UNCHANGED <<indexerPc, tokenRegistry, previousMoods, updateInterval, api,
                 isConnected, stopPc, exited, updateTimer, mdiPending,
                 mdiTicks, sentimentHistory, cycles, nCycles, now, market,
                 initializeCalls, decisionVars, queryOutput>>

\* time passes
Elapse(minutes) ==
  /\ now + minutes <= StartOfDirectCalls + MaxElapsedMinutes
  /\ now' = now + minutes
  /\ UNCHANGED <<indexerPc, tokenRegistry, previousMoods, updateInterval, api,
                 isConnected, stopPc, exited, priceHistory, updateTimer,
                 mdiPending, mdiTicks, sentimentHistory, cycles, nCycles,
                 market, initializeCalls, decisionVars, directVars>>

\* marketDataIndexer.calculateVolatility(symbol, periodMinutes) and
\* marketDataIndexer.calculateMomentum(symbol, periodMinutes)
QueryWindow(symbol, periodMinutes) ==
  /\ queryOutput' =
       << [symbol |-> symbol,
           periodMinutes |-> periodMinutes,
           history |-> HistoryOf(symbol),
           at |-> now,
           volatility |->
             calculateVolatility(HistoryOf(symbol), periodMinutes, now),
           momentum |->
             calculateMomentum(HistoryOf(symbol), periodMinutes, now)] >>
  /\ UNCHANGED <<indexerPc, tokenRegistry, previousMoods, updateInterval, api,
                 isConnected, stopPc, exited, priceHistory, updateTimer,
                 mdiPending, mdiTicks, sentimentHistory, cycles, nCycles, now,
                 market, initializeCalls, decisionVars, directCalls>>

NextBuffers ==
  \/ \E s \in Symbols, r \in DirectResponses : GetCurrentData(s, r)
  \/ \E minutes \in {20, 60} : Elapse(minutes)
  \/ \E s \in Symbols \cup {UnknownSymbol}, p \in {20, 60} : QueryWindow(s, p)

\* the price history and its two readers
SpecBuffers == InitBuffers /\ [][NextBuffers]_vars

\* ------------------------------------------------------------------------
\* The price history (C12) and its readers (C14)
\* ------------------------------------------------------------------------

\* after is before with one sample appended and, past the limit, the
\* oldest one dropped
AppendedOne(before, after, limit) ==
  /\ after # << >>
  /\ LET pushed == Append(before, after[Len(after)])
     IN  after = IF Len(pushed) > limit
                 THEN SubSeq(pushed, Len(pushed) - limit + 1, Len(pushed))
                 ELSE pushed

\* C12: every step leaves each symbol's price history as it was or appends
\* one sample to it, evicting exactly the oldest one when the history held
\* HISTORY_LIMIT samples; the history never holds more than HISTORY_LIMIT.
C12_PriceHistoryFifo ==
  [][\A s \in Symbols :
       /\ Len(priceHistory'[s]) <= HISTORY_LIMIT
       /\ \/ priceHistory'[s] = priceHistory[s]
          \/ /\ AppendedOne(priceHistory[s], priceHistory'[s], HISTORY_LIMIT)
             /\ Len(priceHistory[s]) = HISTORY_LIMIT =>
                  /\ Len(priceHistory'[s]) = HISTORY_LIMIT
                  /\ priceHistory'[s][1] = priceHistory[s][2]]_vars

\* two samples were recorded into a history of HISTORY_LIMIT - 1: the
\* history is full, its oldest sample is gone and the two new ones are last
C12_Witness ==
  /\ directCalls = 2
  /\ Len(priceHistory["SOL"]) = HISTORY_LIMIT
  /\ priceHistory["SOL"][1] = RecordedHistory(HISTORY_LIMIT - 1)[2]
  /\ priceHistory["SOL"][HISTORY_LIMIT].price = 400
  /\ priceHistory["SOL"][HISTORY_LIMIT - 1].price = 400
  /\ priceHistory["SOL"][HISTORY_LIMIT].timestamp > StartOfDirectCalls

\* the samples of the queried history that were inside the look-back
InWindow(q) ==
  {i \in DOMAIN q.history : q.history[i].timestamp >= q.at - q.periodMinutes}

\* C14: calculateVolatility and calculateMomentum return 0 whenever fewer
\* than 2 samples of the symbol are inside the look-back: for an unknown
\* symbol, an empty history, and a history aged out but for one sample.
C14_ZeroBelowTwoSamples ==
  queryOutput # << >> /\ Cardinality(InWindow(queryOutput[1])) < 2 =>
    /\ queryOutput[1].volatility = 0
    /\ queryOutput[1].momentum = << 0 >>

\* a history of 100 samples was queried with exactly one of them left
\* inside the look-back
C14_Witness ==
  /\ queryOutput # << >>
  /\ Len(queryOutput[1].history) = HISTORY_LIMIT
  /\ Cardinality(InWindow(queryOutput[1])) = 1
  /\ queryOutput[1].volatility = 0
  /\ queryOutput[1].momentum = << 0 >>

\* ------------------------------------------------------------------------
\* Calls made directly on the exported singleton sentimentAnalyzer
\* ------------------------------------------------------------------------

\* a sentiment history the analyzer can have built by StartOfDirectCalls:
\* n samples of a flat market without social or on-chain data, 20 minutes
\* apart
AnalysedHistory(symbol, n) ==
  [i \in 1..n |->
     SentimentSample(symbol, FlatMarket, << >>, << >>,
                     StartOfDirectCalls - 20 * (n - i))]

\* the lengths drawn for the history of SOL: 0 and around the limit
SentimentHistoryLengths ==
  {0, SENTIMENT_HISTORY_LIMIT - 1, SENTIMENT_HISTORY_LIMIT}

InitSentiment ==
  /\ indexerPc = "new"
  /\ tokenRegistry = << >>
  /\ previousMoods = [t \in TokenIds |-> NoMood]
  /\ updateInterval = "null"
  /\ api = FALSE
  /\ isConnected = FALSE
  /\ stopPc = "none"
  /\ exited = FALSE
  /\ priceHistory = [s \in Symbols |-> << >>]
  /\ updateTimer = "null"
  /\ mdiPending = [s \in Symbols |-> 0]
  /\ mdiTicks = 0
  /\ \E n \in SentimentHistoryLengths :
       sentimentHistory = ("SOL" :> AnalysedHistory("SOL", n))
                          @@ ("DOT" :> AnalysedHistory("DOT", 1))
                          @@ ("BTC" :> << >>)
  /\ cycles = [c \in CycleIds |-> IdleCycle]
  /\ nCycles = 0
  /\ now = StartOfDirectCalls
  /\ market = SteadyMarket
  /\ initializeCalls = 0
  /\ decisionInput = NoDecisionInput
  /\ decisionOutput = << >>
  /\ directCalls = 0
  /\ queryOutput = << >>

\* the marketData argument: price, priceChange24h and volume24h (cents)
Snapshot(price, priceChange24h, volume24h) ==
  [price |-> price, priceChange24h |-> priceChange24h,
   volume24h |-> volume24h]

\* the body of the social request: the two vote percentages
Votes(up, down) == << [up |-> up, down |-> down] >>

\* the body of the on-chain request: the two 24 hour changes (percents)
Changes(volumeChange, marketCapChange) ==
  << [volumeChange |-> volumeChange, marketCapChange |-> marketCapChange] >>

\* sentimentAnalyzer.analyzeSentiment(symbol, marketData), from the call
\* to its return: the two requests, the fusion, addToHistory
AnalyzeSentiment(symbol, marketData, socialResponse, onChainResponse) ==
  /\ directCalls < MaxDirectCalls
  /\ directCalls' = directCalls + 1
  /\ sentimentHistory' =
       [sentimentHistory EXCEPT
          ![symbol] = addToHistory(@,
                        SentimentSample(symbol, marketData, socialResponse,
                                        onChainResponse, now))]
  /\ UNCHANGED <<indexerPc, tokenRegistry, previousMoods, updateInterval, api,
                 isConnected, stopPc, exited, priceHistory, updateTimer,
                 mdiPending, mdiTicks, cycles, nCycles, now, market,
                 initializeCalls, decisionVars, queryOutput>>

NextSentiment ==
  \/ \E s \in Symbols,
        md \in {Snapshot(200, 0, 1), Snapshot(400, 200, 1)},
        so \in {<< >>, Votes(60, 40)} :
       AnalyzeSentiment(s, md, so, << >>)
  \/ \E minutes \in {20, 60} : Elapse(minutes)

\* the sentiment history
SpecSentiment == InitSentiment /\ [][NextSentiment]_vars

\* the snapshots drawn for the fusion: every band of the technical signal,
\* with and without volume, and a 24 hour change equal to the price
FusionSnapshots ==
  { Snapshot(200, 0, 1), Snapshot(200, 100, 1), Snapshot(200, 100, 0),
    Snapshot(106, 6, 1), Snapshot(101, 1, 1), Snapshot(100, -100, 1),
    Snapshot(94, -6, 1), Snapshot(99, -1, 0), Snapshot(100, 100, 1),
    Snapshot(0, 0, 0) }

\* the vote percentages drawn: a failed request, and percentages from 0
\* (read as 50) to 100
FusionVotes ==
  {<< >>} \cup {Votes(up, down) : up \in {0, 1, 50, 100},
                                  down \in {0, 1, 50, 100}}

\* the changes drawn: a failed request, and both sides of every threshold
FusionChanges ==
  {<< >>} \cup {Changes(v, m) : v \in {-21, -20, -1, 0, 1, 20, 21},
                                m \in {-6, -5, -1, 0, 1, 5, 6}}

\* one analyzeSentiment, with any of these
NextFusion ==
  \E s \in Symbols, md \in FusionSnapshots, so \in FusionVotes,
     oc \in FusionChanges :
    directCalls = 0 /\ AnalyzeSentiment(s, md, so, oc)

\* the fusion of the three signals
SpecFusion == InitSentiment /\ [][NextFusion]_vars

\* ------------------------------------------------------------------------
\* The sentiment history (C13) and the fused sample (C15)
\* ------------------------------------------------------------------------

\* C13: every analyzeSentiment appends exactly one sample to the history
\* of the analysed symbol, evicting the oldest one when it held 50, and
\* leaves the other histories as they were; no history holds more than 50.
C13_SentimentHistoryFifo ==
  [][directCalls' # directCalls =>
       \E s \in Symbols :
         /\ AppendedOne(sentimentHistory[s], sentimentHistory'[s],
                        SENTIMENT_HISTORY_LIMIT)
         /\ sentimentHistory'[s][Len(sentimentHistory'[s])].symbol = s
         /\ Len(sentimentHistory'[s]) =
              Min(Len(sentimentHistory[s]) + 1, SENTIMENT_HISTORY_LIMIT)
         /\ \A r \in Symbols \ {s} :
              sentimentHistory'[r] = sentimentHistory[r]
         /\ \A r \in Symbols :
              Len(sentimentHistory'[r]) <= SENTIMENT_HISTORY_LIMIT]_vars

\* two analyses of SOL on a history of 49 samples: the history is full,
\* its oldest sample is gone, the two new samples are last, in order
C13_Witness ==
  LET h == sentimentHistory["SOL"]
  IN  /\ directCalls = 2
      /\ Len(h) = SENTIMENT_HISTORY_LIMIT
      /\ h[1] = AnalysedHistory("SOL", SENTIMENT_HISTORY_LIMIT - 1)[2]
      /\ h[SENTIMENT_HISTORY_LIMIT - 1].timestamp = StartOfDirectCalls
      /\ h[SENTIMENT_HISTORY_LIMIT].timestamp > StartOfDirectCalls
      /\ sentimentHistory["DOT"] = AnalysedHistory("DOT", 1)

\* the samples produced by the direct calls
FusedSamples ==
  {sentimentHistory[s][Len(sentimentHistory[s])] :
     s \in {r \in Symbols : directCalls > 0 /\ sentimentHistory[r] # << >>}}

\* C15: every sample produced by analyzeSentiment has its score within
\* [-1, 1] and its confidence within [0, 1].
C15_SampleInRange ==
  \A s \in Symbols : \A i \in DOMAIN sentimentHistory[s] :
    /\ sentimentHistory[s][i].score >= -10000
    /\ sentimentHistory[s][i].score <= 10000
    /\ sentimentHistory[s][i].confidence >= 0
    /\ sentimentHistory[s][i].confidence <= 10000

\* the three signals at their largest: the score is 0.757
C15_Witness ==
  \E x \in FusedSamples :
    /\ x.social = 990
    /\ x.onChain = 700
    /\ x.technical = 600
    /\ x.score = 7570

\* ------------------------------------------------------------------------
\* Batch dispatch (C16)
\* ------------------------------------------------------------------------

\* the tokens of cycle c's batch, and those with an entry in its result map
Batch(c) == {t \in TokenIds : cycles[c].moodUpdates[t] # << >>}

Sent(c) == {t \in TokenIds : cycles[c].results[t] # << >>}

\* C16: a batch is sent one item per step, in the order of the batch, each
\* item once: an entry of the result map is written once, as a boolean, and
\* never rewritten; the map a finished batch returns has exactly the batch's
\* tokenIds; and a batch under way is never stopped by a failed item.
C16_SequentialBatch ==
  /\ [][\A c \in CycleIds :
          /\ \A t \in Sent(c) : cycles'[c].results[t] = cycles[c].results[t]
          /\ cycles'[c].results # cycles[c].results =>
               \E t \in Batch(c) \ Sent(c) :
                 /\ \A u \in Batch(c) \ Sent(c) : t <= u
                 /\ cycles'[c].results =
                      [cycles[c].results EXCEPT ![t] = << isReady >>]
          /\ FinishesBatch(c) =>
               {t \in TokenIds : cycles'[c].results[t] # << >>} = Batch(c)]_vars
  /\ [](\A c \in CycleIds :
          /\ Sent(c) \subseteq Batch(c)
          /\ cycles[c].pc = "send" /\ ~exited => ENABLED SendItem(c))

\* a batch of three has been sent to its end although the connection was
\* closed after the first item: one true entry, then two false ones
C16_Witness ==
  \E c \in CycleIds :
    /\ cycles[c].pc = "done"
    /\ Batch(c) = TokenIds
    /\ cycles[c].results = (1 :> << TRUE >>) @@ (2 :> << FALSE >>)
                           @@ (3 :> << FALSE >>)

\* ------------------------------------------------------------------------
\* Shutdown (C17)
\* ------------------------------------------------------------------------

\* C17: once stop() has returned (and the process has not exited), the
\* timer of start() is not armed, no tick can start a cycle, and the sink
\* is not ready.
C17_StoppedForGood ==
  stopPc = "done" /\ ~exited =>
    /\ updateInterval # "active"
    /\ ~ENABLED Tick
    /\ ~isReady

\* ------------------------------------------------------------------------
\* Writers of the histories (C18)
\* ------------------------------------------------------------------------

\* the snapshot fetch of symbol s of some cycle settles in this step
CycleFetchSettles(s) ==
  \E c \in CycleIds :
    s \in cycles[c].fetchPending /\ s \notin cycles'[c].fetchPending

\* the sentiment analysis of symbol s of some cycle settles in this step
CycleSentimentSettles(s) ==
  \E c \in CycleIds :
    s \in cycles[c].sentimentPending /\ s \notin cycles'[c].sentimentPending

\* C18: a price history changes only in a step in which a cycle's fetch of
\* that symbol settles, a sentiment history only in a step in which a
\* cycle's analysis of that symbol settles, and by one sample at a time.
C18_CycleIsOnlyWriter ==
  [][\A s \in Symbols :
       /\ priceHistory'[s] # priceHistory[s] =>
            /\ CycleFetchSettles(s)
            /\ AppendedOne(priceHistory[s], priceHistory'[s], HISTORY_LIMIT)
       /\ sentimentHistory'[s] # sentimentHistory[s] =>
            /\ CycleSentimentSettles(s)
            /\ AppendedOne(sentimentHistory[s], sentimentHistory'[s],
                           SENTIMENT_HISTORY_LIMIT)]_vars

\* ------------------------------------------------------------------------
\* Offline mode (C19)
\* ------------------------------------------------------------------------

\* the connection to the relayer has not been established (and stop() has
\* not been called, which would close it)
Offline == stopPc = "none" /\ ~(isConnected /\ api)

\* C19: without a connection to the relayer the process goes on: start()
\* arms the timer after the first cycle, and every cycle that has joined
\* its requests has computed a mood for every token with a snapshot, has
\* run the change detection, has returned, and has sent nothing.
C19_OfflineMode ==
  Offline =>
    /\ ~exited
    /\ cycles[1].pc = "done" => indexerPc = "running" /\ updateInterval = "active"
    /\ \A c \in CycleIds :
         /\ Sent(c) = {}
         /\ cycles[c].pc # "send"
         /\ cycles[c].pc = "done" =>
              /\ cycles[c].decided
              /\ \A t \in TokenIds :
                   /\ cycles[c].marketData[tokenRegistry[t]] # << >>
                        => cycles[c].analysis[t] # << >>
                   /\ cycles[c].moodUpdates[t] # << >> <=>
                        /\ cycles[c].analysis[t] # << >>
                        /\ MoodChanged(cycles[c].previousMood[t],
                                       cycles[c].analysis[t][1])

\* the connection failed at startup; the first cycle selected every token
\* and sent nothing; the timer is armed and the second cycle has decided too
C19_Witness ==
  /\ Offline
  /\ indexerPc = "running"
  /\ updateInterval = "active"
  /\ Batch(1) = TokenIds
  /\ Sent(1) = {}
  /\ cycles[2].pc = "done"
  /\ DecidedTokens(2) = TokenIds

\* ------------------------------------------------------------------------
\* The writer of previousMoods (C20)
\* ------------------------------------------------------------------------

\* token t is in the moodUpdates of the cycle whose detection runs in
\* this step
Selects(c, t) == Decides(c) /\ cycles'[c].moodUpdates[t] # << >>

\* C20: the entry of a token changes only in the step in which the change
\* detection of a cycle selects the token, and it is then the selected
\* mood; the detection leaves the entries of the other tokens as they
\* were, and an entry that is set is never unset.
C20_TableWrittenByDetection ==
  [][\A t \in TokenIds :
       /\ previousMoods'[t] # previousMoods[t] =>
            \E c \in CycleIds : Selects(c, t)
       /\ \A c \in CycleIds :
            Decides(c) =>
              previousMoods'[t] =
                IF cycles'[c].moodUpdates[t] # << >>
                THEN cycles'[c].moodUpdates[t][1].mood
                ELSE previousMoods[t]
       /\ previousMoods[t] # NoMood => previousMoods'[t] # NoMood]_vars

\* token a was selected by cycle c with a mood other than its entry
Replaced(c, a) ==
  /\ cycles[c].decided
  /\ cycles[c].previousMood[a] # NoMood
  /\ cycles[c].moodUpdates[a] # << >>
  /\ cycles[c].moodUpdates[a][1].mood # cycles[c].previousMood[a]

\* token b had an entry and was not selected by cycle c
Kept(c, b) ==
  /\ cycles[c].decided
  /\ cycles[c].previousMood[b] # NoMood
  /\ cycles[c].moodUpdates[b] = << >>

\* a cycle has replaced the entry of one token and kept the entries of
\* two others: one for which it computed a mood (the same mood, or a
\* confidence of at most 0.6) and one for which it had no snapshot
C20_Witness ==
  \E c \in CycleIds : \E a, b, d \in TokenIds :
    /\ Replaced(c, a)
    /\ previousMoods[a] = cycles[c].moodUpdates[a][1].mood
    /\ Kept(c, b)
    /\ cycles[c].analysis[b] # << >>
    /\ previousMoods[b] = cycles[c].previousMood[b]
    /\ Kept(c, d)
    /\ cycles[c].analysis[d] = << >>
    /\ previousMoods[d] = cycles[c].previousMood[d]

\* ------------------------------------------------------------------------
\* Updates lost on a failed delivery (C21)
\* ------------------------------------------------------------------------

\* cycle c found the sink ready and its send for token t returned false
FailedSend(c, t) == cycles[c].sinkReady /\ cycles[c].results[t] = << FALSE >>

\* cycle d ran its change detection after cycle c did
DecidedAfter(c, d) == cycles[c].decided /\ cycles[d].order > cycles[c].order

\* cycle d computed, with a confidence above 0.6, a mood for t other than
\* the one cycle c batched
ComputedAnother(c, d, t) ==
  /\ cycles[d].analysis[t] # << >>
  /\ cycles[d].analysis[t][1].mood # cycles[c].moodUpdates[t][1].mood
  /\ cycles[d].analysis[t][1].confidence > 6000

\* C21: when the send of cycle c for token t has failed while the sink was
\* ready, a cycle that runs its detection later has t in its batch only if
\* that cycle, or one between the two, has computed for t a mood other than
\* the one that was not delivered, with a confidence above 0.6.
C21_LostUpdate ==
  \A c, e \in CycleIds : \A t \in TokenIds :
    FailedSend(c, t) /\ DecidedAfter(c, e) /\ cycles[e].moodUpdates[t] # << >>
      => \E d \in CycleIds :
           /\ DecidedAfter(c, d)
           /\ cycles[d].order <= cycles[e].order
           /\ ComputedAnother(c, d, t)

\* the sends of a cycle have failed for two tokens; a later cycle computed
\* the same mood for one of them and left it out of its batch, and another
\* mood for the other and batched it
C21_Witness ==
  \E c, e \in CycleIds : \E t, u \in TokenIds :
    /\ FailedSend(c, t)
    /\ FailedSend(c, u)
    /\ DecidedAfter(c, e)
    /\ cycles[e].analysis[t] # << >>
    /\ cycles[e].analysis[t][1].mood = cycles[c].moodUpdates[t][1].mood
    /\ cycles[e].analysis[t][1].confidence > 6000
    /\ cycles[e].moodUpdates[t] = << >>
    /\ ComputedAnother(c, e, u)
    /\ cycles[e].moodUpdates[u] # << >>

\* ------------------------------------------------------------------------
\* No mood is batched twice in a row (C22)
\* ------------------------------------------------------------------------

\* cycles c and e have token t in their batches, e after c, and no cycle
\* that ran its detection between the two has
ConsecutiveInclusions(c, e, t) ==
  /\ DecidedAfter(c, e)
  /\ cycles[c].moodUpdates[t] # << >>
  /\ cycles[e].moodUpdates[t] # << >>
  /\ \A d \in CycleIds :
       DecidedAfter(c, d) /\ cycles[d].order < cycles[e].order
         => cycles[d].moodUpdates[t] = << >>

\* C22: the moods of two consecutive inclusions of a token in the batches
\* of the cycles are different.
C22_NoRepeatedMood ==
  \A c, e \in CycleIds : \A t \in TokenIds :
    ConsecutiveInclusions(c, e, t) =>
      cycles[e].moodUpdates[t][1].mood # cycles[c].moodUpdates[t][1].mood

\* three cycles have run one after the other; token t was batched by the
\* first and, with another mood, by the second; token u was batched by the
\* first and not by the second, which computed the same mood for it
C22_Witness ==
  /\ \A c \in CycleIds : cycles[c].pc = "done" /\ cycles[c].order = c
  /\ \E t, u \in TokenIds :
       /\ ConsecutiveInclusions(1, 2, t)
       /\ cycles[1].moodUpdates[u] # << >>
       /\ cycles[2].analysis[u] # << >>
       /\ cycles[2].analysis[u][1].mood = cycles[1].moodUpdates[u][1].mood
       /\ cycles[2].analysis[u][1].confidence > 6000
       /\ cycles[2].moodUpdates[u] = << >>

\* ------------------------------------------------------------------------
\* The decision followed by the change gate, for one token
\* ------------------------------------------------------------------------

\* the token the detection is run for
GateToken == 1

\* what previousMoods.get(tokenId) can return: nothing, or the mood an
\* earlier cycle has set
PreviousMoodValues == MoodState \cup {NoMood}

\* an indexer that has been running, at the body of the loop of runAnalysis
\* (l.123-150) for GateToken, with the snapshot, the sentiment and the
\* volatility of decisionInput
InitGate ==
  /\ indexerPc = "running"
  /\ tokenRegistry = LoadedTokenRegistry
  /\ \E m \in PreviousMoodValues :
       previousMoods = [t \in TokenIds |-> IF t = GateToken THEN m ELSE NoMood]
  /\ updateInterval = "active"
  /\ api = FALSE
  /\ isConnected = FALSE
  /\ stopPc = "none"
  /\ exited = FALSE
  /\ priceHistory = [s \in Symbols |-> << >>]
  /\ updateTimer = "active"
  /\ mdiPending = [s \in Symbols |-> 0]
  /\ mdiTicks = 0
  /\ sentimentHistory = [s \in Symbols |-> << >>]
  /\ cycles = [c \in CycleIds |-> IdleCycle]
  /\ nCycles = 0
  /\ now = 0
  /\ market = SteadyMarket
  /\ initializeCalls = 1
  /\ decisionInput \in DecisionInputs
  /\ decisionOutput = << >>
  /\ directCalls = 0
  /\ queryOutput = << >>

\* l.124-147 for GateToken: calculateMood, previousMoods.get, the test
\* !previousMood || shouldUpdateMood(...), moodUpdates.set and
\* previousMoods.set.  queryOutput keeps what the test was made with
DetectChange ==
  LET moodAnalysis ==
        calculateMood(
          [symbol |-> LoadedTokenRegistry[GateToken],
           priceChangePercent24h |-> decisionInput.priceChangePercent24h],
          [score |-> decisionInput.score,
           confidence |-> decisionInput.confidence],
          decisionInput.volatility)
      previousMood == previousMoods[GateToken]
      moodUpdates ==
        [t \in TokenIds |->
           IF t = GateToken /\ MoodChanged(previousMood, moodAnalysis)
           THEN << moodAnalysis >>
           ELSE << >>]
  IN  /\ decisionOutput = << >>
      /\ decisionOutput' = << moodAnalysis >>
      /\ queryOutput' = << [tokenId |-> GateToken,
                            previousMood |-> previousMood,
                            selected |-> moodUpdates[GateToken] # << >>] >>
      /\ previousMoods' = PreviousMoodsAfter(moodUpdates)
      /\ UNCHANGED <<indexerPc, tokenRegistry, updateInterval, api,
                     isConnected, stopPc, exited, priceHistory, updateTimer,
                     mdiPending, mdiTicks, sentimentHistory, cycles, nCycles,
                     now, market, initializeCalls, decisionInput,
                     directCalls>>

NextGate == DetectChange

\* the decision and the change gate alone
SpecGate == InitGate /\ [][NextGate]_vars

\* ------------------------------------------------------------------------
\* Decision confidence and the change gate (C23)
\* ------------------------------------------------------------------------

\* the token has entered moodUpdates
GateSelected == queryOutput[1].selected

\* C23: for a token that has a previous mood, a candidate of the mixed
\* rules 6 and 7 is never selected; a Bullish or Bearish candidate is
\* selected exactly when it is not the previous mood and the price change
\* is beyond 12 percent; a Volatile candidate of rule 1 exactly when the
\* previous mood is not Volatile and the volatility is above 60; the default
\* Neutral candidate exactly when the previous mood is not Neutral.
C23_ConfidenceAndGate ==
  Decided /\ queryOutput # << >> /\ queryOutput[1].previousMood # NoMood =>
    LET x == decisionInput
        previousMood == queryOutput[1].previousMood
        mood == decisionOutput[1].mood
    IN  /\ FirstRule(x) \in {6, 7} => ~GateSelected
        /\ mood \in {Bullish, Bearish} =>
             (GateSelected <=>
                previousMood # mood /\ Abs(x.priceChangePercent24h) > 1200)
        /\ FirstRule(x) = 1 =>
             (GateSelected <=> previousMood # Volatile /\ x.volatility > 6000)
        /\ FirstRule(x) = 8 => (GateSelected <=> previousMood # Neutral)

\* a Bullish candidate at +12.01% has replaced Neutral
C23_Witness ==
  /\ Decided
  /\ queryOutput # << >>
  /\ queryOutput[1].previousMood = Neutral
  /\ decisionInput.priceChangePercent24h = 1201
  /\ decisionOutput[1].mood = Bullish
  /\ GateSelected
  /\ previousMoods[GateToken] = Bullish

\* ------------------------------------------------------------------------
\* The decision is total (C24)
\* ------------------------------------------------------------------------

\* C24: for a sentiment confidence between 0 and 1, calculateMood returns
\* one of the six moods of MoodState and a confidence between 0 and 1.
C24_TotalDecision ==
  Decided /\ decisionInput.confidence \in 0..10000 =>
    /\ decisionOutput[1].mood \in MoodState
    /\ Cardinality(MoodState) = 6
    /\ decisionOutput[1].confidence \in 0..10000

\* +25% with a mildly positive sentiment: Bullish, with 25 / 20 capped at 1
C24_Witness ==
  /\ Decided
  /\ decisionInput.priceChangePercent24h = 2500
  /\ decisionInput.volatility = 0
  /\ decisionInput.score = 2000
  /\ decisionOutput[1].mood = Bullish
  /\ decisionOutput[1].confidence = 10000

\* ------------------------------------------------------------------------
\* Division by a price of zero (C25)
\* ------------------------------------------------------------------------

\* the window of the query q holds a price of 0 that a return is divided by
ZeroDivisor(q) ==
  LET periodData == PeriodData(q.history, q.periodMinutes, q.at)
  IN  /\ Len(periodData) >= 2
      /\ \E i \in 1..(Len(periodData) - 1) : periodData[i].price = 0

\* the first price of the window of the query q is 0
ZeroFirstPrice(q) ==
  LET periodData == PeriodData(q.history, q.periodMinutes, q.at)
  IN  Len(periodData) >= 2 /\ periodData[1].price = 0

\* C25: calculateVolatility returns 0 when a price a return is divided by
\* is 0, and calculateMomentum returns 0 when the first price of the window
\* is 0.
C25_ZeroDivisorGivesZero ==
  queryOutput # << >> =>
    /\ ZeroDivisor(queryOutput[1]) => queryOutput[1].volatility = 0
    /\ ZeroFirstPrice(queryOutput[1]) => queryOutput[1].momentum = << 0 >>

\* ------------------------------------------------------------------------
\* The analysis cycles in a market that visits every band of the technical
\* signal
\* ------------------------------------------------------------------------

\* a complete body: the price, the absolute change and the percentage of
\* the change over 24 hours (in 1/100 of a percent), and the volume
Quote(price, priceChange24h, priceChangePercent24h, volume24h) ==
  [kind |-> "ok", price |-> price, volume24h |-> volume24h,
   priceChange24h |-> priceChange24h,
   priceChangePercent24h |-> priceChangePercent24h]

\* the price of each symbol is steady from one request to the next (2.00,
\* 2.10, 2.20); what changes is the price 24 hours before.  The first
\* response of each symbol goes to the initial fetch of MarketDataIndexer.
\* One response for SOL is MixedMarket: +6% with an absolute change of 0;
\* one response for BTC has an absolute change equal to the price (the price
\* 24 hours before was 0, and no percentage is reported)
BandScripts ==
  { MarketScript(<<FlatMarket,
                   MixedMarket,
                   Quote(200, 20, 1111, 1),
                   Quote(200, 10, 526, 0)>>,
                 <<Quote(210, 0, 0, 1),
                   Quote(210, 10, 500, 1),
                   Quote(210, -10, -454, 0),
                   Quote(210, -20, -869, 1)>>,
                 <<Quote(220, 0, 0, 1),
                   Quote(220, 20, 1000, 1),
                   Quote(220, -30, -1200, 1),
                   Quote(220, 1, 45, 0)>>),
    MarketScript(<<FlatMarket,
                   Quote(200, -20, -909, 0),
                   Quote(200, 30, 1764, 0),
                   Quote(200, -1, -49, 1)>>,
                 <<Quote(210, 0, 0, 1),
                   Quote(210, -1, -47, 1),
                   Quote(210, -30, -1250, 0),
                   Quote(210, 0, 0, 0)>>,
                 <<Quote(220, 0, 0, 1),
                   Quote(220, 0, 0, 1),
                   Quote(220, 0, 0, 1),
                   Quote(220, 220, 0, 1)>>) }

InitBands ==
  /\ Constructed
  /\ market \in BandScripts
  /\ decisionInput = NoDecisionInput

SpecBands == InitBands /\ [][NextAnalysis]_vars

\* ------------------------------------------------------------------------
\* The technical signal (C26)
\* ------------------------------------------------------------------------

\* the banded score of the quotient numerator / denominator as floating
\* point computes it, in percent: x / 0 is infinite with the sign of x, and
\* 0 / 0 is a NaN, which is in no band.  In 1/1000
BandedScore(numerator, denominator) ==
  LET n == IF denominator < 0 THEN 0 - numerator ELSE numerator
      d == Abs(denominator)
  IN  IF n > 10 * d THEN 500
      ELSE IF n > 5 * d THEN 300
      ELSE IF n > 0 THEN 100
      ELSE IF n < -10 * d THEN -500
      ELSE IF n < -5 * d THEN -300
      ELSE IF n < 0 THEN -100
      ELSE 0

\* the band value amplified by 1.2 when there is volume, and clamped
Amplified(band, volume24h) ==
  LET amplified == IF volume24h > 0 THEN (band * 12) \div 10 ELSE band
  IN  Max(-1000, Min(1000, amplified))

\* the snapshots of the cycles that a sentiment sample was computed from,
\* as <<snapshot, sample>>
TechnicalCases ==
  {<<cycles[c].marketData[s][1], cycles[c].sentimentData[s][1]>> :
     <<c, s>> \in {y \in CycleIds \X Symbols :
                     /\ cycles[y[1]].marketData[y[2]] # << >>
                     /\ cycles[y[1]].sentimentData[y[2]] # << >>}}

FetchSucceeds(c, s) ==
  cycles[c].marketData[s] = << >> /\ cycles'[c].marketData[s] # << >>

\* the price sample fetchMarketData records for the snapshot it returns
SampleOf(snapshot) ==
  [price |-> snapshot.price, timestamp |-> snapshot.timestamp]

\* C27: the step in which a fetch of a cycle returns a snapshot appends the
\* snapshot's sample to the history of the symbol, and the cycle has not
\* computed its volatilities then; when it does, the sample is in the
\* history, inside the look-back, and the volatility the cycle uses for the
\* symbol is the volatility of that history.
C27_OwnSampleBeforeVolatility ==
  [][\A c \in CycleIds : \A s \in Symbols :
       /\ FetchSucceeds(c, s) =>
            /\ ~cycles'[c].decided
            /\ Len(priceHistory'[s]) = Len(priceHistory[s]) + 1
            /\ priceHistory'[s][Len(priceHistory'[s])]
                 = SampleOf(cycles'[c].marketData[s][1])
       /\ Decides(c) /\ cycles'[c].marketData[s] # << >> =>
            /\ \E i \in DOMAIN priceHistory'[s] :
                 /\ priceHistory'[s][i] = SampleOf(cycles'[c].marketData[s][1])
                 /\ priceHistory'[s][i].timestamp >= now - VolatilityPeriodMinutes
            /\ cycles'[c].volatility[s] =
                 calculateVolatility(priceHistory'[s], VolatilityPeriodMinutes,
                                     now)]_vars

\* the price of BTC was 2.00 at the initial fetch and in the first cycle,
\* and is 1.00 in this cycle: its volatility is above 0 only because the
\* sample of this cycle is counted
C27_Witness ==
  \E c \in CycleIds :
    /\ cycles[c].decided
    /\ cycles[c].marketData["BTC"] # << >>
    /\ cycles[c].marketData["BTC"][1].price = 100
    /\ [i \in DOMAIN priceHistory["BTC"] |-> priceHistory["BTC"][i].price]
         = <<200, 200, 100>>
    /\ cycles[c].volatility["BTC"] > 0

\* ------------------------------------------------------------------------
\* No reconnection (C28)
\* ------------------------------------------------------------------------

\* the connect() of initialize() has settled
AttemptOver == indexerPc \notin {"new", "connecting"}

ConnectSettles ==
  /\ indexerPc \in {"connecting", "reconnecting"}
  /\ indexerPc' \notin {"connecting", "reconnecting"}

\* a disconnect() that had an api to close returns in this step
DisconnectReturns == stopPc = "disconnecting" /\ stopPc' = "done"

\* the send of cycle c for token t returns in this step
SendReturns(c, t) ==
  cycles[c].results[t] = << >> /\ cycles'[c].results[t] # << >>

\* C30: isReady() becomes true only when a connect() succeeds and false
\* only when a disconnect() returns, after which it is false; a connect()
\* that fails leaves it as it was, false; a send on a sink that is not
\* connected returns false and the batch goes on, so that every item sent
\* after the disconnection is recorded as failed.
C30_SinkStates ==
  [][/\ ~isReady /\ (isConnected' /\ api') => ConnectSettles
     /\ isReady /\ ~(isConnected' /\ api') => DisconnectReturns
     /\ DisconnectReturns => ~(isConnected' /\ api')
     /\ ConnectSettles /\ ~isConnected' => ~isReady
     /\ \A c \in CycleIds : \A t \in TokenIds :
          SendReturns(c, t) =>
            /\ cycles'[c].results[t] = << isReady >>
            /\ cycles'[c].pc \in {"send", "done"}
            /\ ~exited']_vars

\* the sink was ready when the first cycle tested it and was disconnected
\* before the first send: the three items of the batch are recorded as
\* failed and the cycle has returned
C30_Witness ==
  /\ cycles[1].sinkReady
  /\ cycles[1].pc = "done"
  /\ api
  /\ ~isConnected
  /\ stopPc = "done"
  /\ ~exited
  /\ \A t \in TokenIds : cycles[1].results[t] = << FALSE >>

=============================================================================
